---- MODULE Spec2Model ----
(***************************************************************************)
(* Visper: the GitHub-repository ingestion service (main.py), its corpus   *)
(* client (vectara_client.py), its GitHub client (github_client.py), the   *)
(* URL parser (utils.py), the background render process (agent_router.py   *)
(* driving run.py), the analyzer agent (repository_analyzer.py) and the    *)
(* speech synthesis of the pipeline (generate_tts.py), as one state        *)
(* machine.                                                                *)
(*                                                                         *)
(* Text is modelled as a sequence of one-character strings wherever the    *)
(* code inspects characters (URLs, gs:// URIs).  A file name is the        *)
(* sequence of its dot-separated components, <<"README", ".md">>, a path   *)
(* the sequence of the names on it.                                        *)
(***************************************************************************)
EXTENDS Integers, Sequences, FiniteSets, TLC

VARIABLES
    env,          \* os.environ of the service (inherited by render processes)
    pc,           \* position of the POST /fetch-repo handler
    repo_url,     \* request.repo_url of the request being handled
    owner_repo,   \* (owner, repo) returned by parse_github_url
    world,        \* what the GitHub API answers during this request
    all_files,    \* all_files of fetch_repository
    files_to_ingest, \* files_to_ingest of ingest_files
    filtered_files, \* filtered_files of ingest_files
    submitted,    \* paths of the files handed to documents.create in this
                  \* run, one entry per file, in the order of the first call
    doc_index,    \* loop index of ingest_files (1-based)
    attempt,      \* loop variable of ingest_document
    successful,   \* ingest_files: successful
    failed,       \* ingest_files: failed
    vectara_stats,\* vectara_stats of fetch_repository
    create_log,   \* outcomes of documents.create for the document in hand
    sleep_log,    \* the time.sleep arguments of the same document
    doc_results,  \* the values ingest_document returned in this run
    github_log,   \* paths requested from the GitHub API in this request
    launch_log,   \* launch steps of this request: what each did
    response,     \* the HTTP response of the last POST /fetch-repo
    requests,     \* number of POST /fetch-repo requests accepted so far
    procs,        \* the agent_router.py processes spawned so far
    status_file,  \* media/video_status.json
    pid_file,     \* media/agent_router.pid
    agent_status_file, \* media/agent_status.json
    agent_log,    \* media/agent_router.log: number of header blocks appended
    video_response, \* the HTTP response of the last GET /video-status
    search,       \* the last POST /search: request, corpus query, response
    analyzer,     \* repository_analyzer.py: the messages its agent has handled
    tts           \* generate_tts.py: the narration calls of one run.py process

vars == <<env, pc, repo_url, owner_repo, world, all_files, files_to_ingest,
          filtered_files, submitted,
          doc_index, attempt, successful, failed, vectara_stats, create_log,
          sleep_log, doc_results, github_log, launch_log, response, requests, procs,
          status_file, pid_file, agent_status_file, agent_log,
          video_response, search, analyzer, tts>>

None == "None"

----------------------------------------------------------------------------
(* Bounds of the model *)

\* POST /fetch-repo requests accepted in one behaviour
MaxRequests == 2

----------------------------------------------------------------------------
(* Sequences *)

StartsWith(s, p) == Len(s) >= Len(p) /\ SubSeq(s, 1, Len(p)) = p

EndsWith(s, p) == Len(s) >= Len(p) /\ SubSeq(s, Len(s) - Len(p) + 1, Len(s)) = p

Drop(s, n) == SubSeq(s, n + 1, Len(s))

RECURSIVE RStrip(_, _)
\* str.rstrip(c)
RStrip(s, c) ==
    IF Len(s) > 0 /\ s[Len(s)] = c THEN RStrip(SubSeq(s, 1, Len(s) - 1), c) ELSE s

\* index of the first occurrence of c in s, 0 when there is none (str.find + 1)
Find(s, c) ==
    IF \E i \in 1..Len(s) : s[i] = c
    THEN CHOOSE i \in 1..Len(s) : s[i] = c /\ \A j \in 1..(i - 1) : s[j] # c
    ELSE 0

RECURSIVE SeqSum(_)
SeqSum(s) == IF s = <<>> THEN 0 ELSE Head(s) + SeqSum(Tail(s))

----------------------------------------------------------------------------
(* utils.py: parse_github_url *)

HTTPS_SCHEME == <<"h","t","t","p","s",":","/","/">>
HTTP_SCHEME == <<"h","t","t","p",":","/","/">>
WWW_DOT == <<"w","w","w",".">>
GITHUB_COM == <<"g","i","t","h","u","b",".","c","o","m">>
GIT_AT == <<"g","i","t","@">>
DOT_GIT == <<".","g","i","t">>

\* the two groups ([^/]+)/([^/]+) matched at the start of s; ok is FALSE when
\* they do not match (re.match anchors the start only)
TwoGroups(s) ==
    LET i == Find(s, "/")
        rest == Drop(s, i)
        j == Find(rest, "/")
        repo == IF j = 0 THEN rest ELSE SubSeq(rest, 1, j - 1)
    IN  IF i > 1 /\ Len(repo) > 0
        THEN [ok |-> TRUE, owner |-> SubSeq(s, 1, i - 1), repo |-> repo]
        ELSE [ok |-> FALSE]

\* faulty variant: the HTTPS pattern without the host, (?:https?://)?[^/]+/([^/]+)/([^/]+)
MatchHttpsAnyHost(url) ==
    LET a == IF StartsWith(url, HTTPS_SCHEME) THEN Drop(url, Len(HTTPS_SCHEME))
             ELSE IF StartsWith(url, HTTP_SCHEME) THEN Drop(url, Len(HTTP_SCHEME))
             ELSE url
        i == Find(a, "/")
    IN  IF i > 1 THEN TwoGroups(Drop(a, i)) ELSE [ok |-> FALSE]

\* re.match(r'(?:https?://)?(?:www\.)?github\.com/([^/]+)/([^/]+)', url)
MatchHttps(url) ==
    LET a == IF StartsWith(url, HTTPS_SCHEME) THEN Drop(url, Len(HTTPS_SCHEME))
             ELSE IF StartsWith(url, HTTP_SCHEME) THEN Drop(url, Len(HTTP_SCHEME))
             ELSE url
        b == IF StartsWith(a, WWW_DOT) THEN Drop(a, Len(WWW_DOT)) ELSE a
        lit == GITHUB_COM \o <<"/">>
    IN  IF StartsWith(b, lit) THEN TwoGroups(Drop(b, Len(lit))) ELSE [ok |-> FALSE]

\* re.match(r'git@github\.com:([^/]+)/([^/]+)', url)
MatchSsh(url) ==
    LET lit == GIT_AT \o GITHUB_COM \o <<":">>
    IN  IF StartsWith(url, lit) THEN TwoGroups(Drop(url, Len(lit))) ELSE [ok |-> FALSE]

\* faulty variant: the trailing ".git" is left in place
StripUrlKeepGit(url) == RStrip(url, "/")

\* the URL after rstrip('/') and removal of one trailing ".git"
StripUrl(url) ==
    LET u == RStrip(url, "/")
    IN  IF EndsWith(u, DOT_GIT) THEN SubSeq(u, 1, Len(u) - 4) ELSE u

\* parse_github_url: (owner, repo), or HTTPException(400)
parse_github_url(url) ==
    LET u == StripUrl(url)
        h == MatchHttps(u)
        s == MatchSsh(u)
    IN  IF h.ok THEN [ok |-> TRUE, owner |-> h.owner, repo |-> RStrip(h.repo, "/")]
        ELSE IF s.ok THEN [ok |-> TRUE, owner |-> s.owner, repo |-> RStrip(s.repo, "/")]
        ELSE [ok |-> FALSE, status_code |-> 400]

\* repo_url values of the requests the model sends
UrlHttps == HTTPS_SCHEME \o GITHUB_COM \o <<"/","o","/","r">>
UrlSshGit == GIT_AT \o GITHUB_COM \o <<":","o","/","r">> \o DOT_GIT
UrlNotValid == <<"n","o","t","-","a","-","v","a","l","i","d","-","u","r","l">>
UrlNoRepo == HTTPS_SCHEME \o GITHUB_COM \o <<"/","o">>
UrlOtherHost == HTTPS_SCHEME \o <<"g","i","t","l","a","b",".","c","o","m","/","o","/","r">>

RequestUrls == {UrlHttps, UrlSshGit, UrlNotValid, UrlNoRepo, UrlOtherHost}

\* URLs put together from a prefix, an owner, a repo and a tail, each with the
\* pair it stands for; listed says whether the URL has one of the forms the
\* docstring of parse_github_url lists
Owners == { <<"o">>, <<"o","c","t">> }
Repos == { <<"r">>, <<"k","i","t">> }
SLASH == <<"/">>
TREE == <<"/","t","r","e","e">>

UrlCase(prefix, owner, repo, tail, listed) ==
    [url |-> prefix \o owner \o SLASH \o repo \o tail,
     owner |-> owner, repo |-> repo, listed |-> listed]

HttpsPrefix == HTTPS_SCHEME \o GITHUB_COM \o SLASH
BarePrefix == GITHUB_COM \o SLASH
SshPrefix == GIT_AT \o GITHUB_COM \o <<":">>
OtherPrefixes ==
    { HTTP_SCHEME \o GITHUB_COM \o SLASH,
      HTTPS_SCHEME \o WWW_DOT \o GITHUB_COM \o SLASH,
      WWW_DOT \o GITHUB_COM \o SLASH }
ForeignPrefixes ==
    { HTTPS_SCHEME \o <<"g","i","t","l","a","b",".","c","o","m","/">>,
      <<"s","s","h",":","/","/">> \o GIT_AT \o GITHUB_COM \o SLASH,
      <<"x">> \o GITHUB_COM \o SLASH }

\* URLs of a GitHub repository, (owner, repo) being the pair they name
GithubCases ==
    UNION { UNION {
        { UrlCase(HttpsPrefix, o, r, t, TRUE) :
            t \in {<<>>, DOT_GIT, SLASH, SLASH \o SLASH, DOT_GIT \o SLASH} }
        \cup { UrlCase(HttpsPrefix, o, r, TREE, FALSE) }
        \cup { UrlCase(SshPrefix, o, r, DOT_GIT, TRUE),
               UrlCase(SshPrefix, o, r, <<>>, FALSE),
               UrlCase(BarePrefix, o, r, <<>>, TRUE),
               UrlCase(BarePrefix, o, r, DOT_GIT, FALSE) }
        \cup { UrlCase(p, o, r, t, FALSE) : p \in OtherPrefixes, t \in {<<>>, DOT_GIT} }
        : r \in Repos } : o \in Owners }

\* strings that name no GitHub repository
NoRepoUrls ==
    { UrlNotValid, UrlNoRepo, UrlOtherHost, HttpsPrefix \o <<"o">> \o SLASH,
      HttpsPrefix \o SLASH \o <<"r">>, SshPrefix \o <<"o">>, <<>> }
    \cup { p \o <<"o">> \o SLASH \o <<"r">> : p \in ForeignPrefixes }

ParseUrls == { c.url : c \in GithubCases } \cup NoRepoUrls

----------------------------------------------------------------------------
(* Names, paths and file contents *)

\* dict.get(key, default)
Get(d, key, default) == IF key \in DOMAIN d THEN d[key] ELSE default

\* str.lower() of one name component, for the components the model uses
LowerTok(t) ==
    CASE t = "README" -> "readme"
      [] t = "Readme" -> "readme"
      [] t = ".MD" -> ".md"
      [] t = ".PNG" -> ".png"
      [] t = "LOGO" -> "logo"
      [] t = "Dockerfile" -> "dockerfile"
      [] t = "LICENSE" -> "license"
      [] t = "NOTICE" -> "notice"
      [] OTHER -> t

\* str.lower() of a name
Lower(name) == [i \in 1..Len(name) |-> LowerTok(name[i])]

\* os.path.splitext(name)[1]: the last dot-component, when it is not the
\* whole name (a leading dot starts no extension)
SplitExt(name) == IF Len(name) > 1 THEN name[Len(name)] ELSE ""

\* a content is a sequence of text chunks; the chunks the model uses and
\* their lengths in characters
BinarySentinel == <<"[Binary content", " - cannot display as text]">>
StatusText(code) ==
    CASE code = 403 -> "403" [] code = 404 -> "404" [] code = 500 -> "500"
      [] code = 502 -> "502" [] OTHER -> "???"
FailedContent(code) == <<"Failed to fetch", " file: ", StatusText(code)>>

ChunkLen(c) ==
    CASE c = "[Binary content" -> 15
      [] c = " - cannot display as text]" -> 26
      [] c = "Failed to fetch" -> 15
      [] c = " file: " -> 7
      [] c \in {"403", "404", "500", "502", "???"} -> 3
      [] c = "print('hello world')" -> 20
      [] c = "# Project" -> 9
      [] c = "\n" -> 1
      [] c = "  " -> 2
      [] c = "x = 1" -> 5
      [] c = "A long description" -> 18
      [] c = "throw Error('" -> 13
      [] c = "')" -> 2
      [] c = "FROM python:3" -> 13
      [] OTHER -> 12

IsSpace(c) == c \in {"\n", "  "}

RECURSIVE LStripChunks(_)
LStripChunks(content) ==
    IF content # <<>> /\ IsSpace(Head(content)) THEN LStripChunks(Tail(content))
    ELSE content

RECURSIVE RStripChunks(_)
RStripChunks(content) ==
    IF content # <<>> /\ IsSpace(content[Len(content)])
    THEN RStripChunks(SubSeq(content, 1, Len(content) - 1))
    ELSE content

\* len(content.strip())
StripLen(content) ==
    LET t == RStripChunks(LStripChunks(content))
    IN  SeqSum([i \in 1..Len(t) |-> ChunkLen(t[i])])

----------------------------------------------------------------------------
(* github_client.py *)

\* BINARY_EXTENSIONS
BINARY_EXTENSIONS ==
    {".jpg", ".jpeg", ".png", ".gif", ".bmp", ".svg", ".ico", ".webp",
     ".pdf", ".zip", ".tar", ".gz", ".rar", ".7z",
     ".exe", ".dll", ".so", ".dylib",
     ".mp3", ".mp4", ".avi", ".mov", ".wmv", ".flv",
     ".ttf", ".woff", ".woff2", ".eot",
     ".class", ".jar", ".war",
     ".pyc", ".pyo"}

\* faulty variant: the extension is compared as written
should_ignore_file_cased(filename) == SplitExt(filename) \in BINARY_EXTENSIONS

\* GitHubAPIClient.should_ignore_file
should_ignore_file(filename) == LowerTok(SplitExt(filename)) \in BINARY_EXTENSIONS

\* An exception: HTTPException(status_code) or any other Exception
HttpExc(code) == [exc |-> "HTTPException", status_code |-> code]
OtherExc == [exc |-> "Exception"]
NoExc == [exc |-> None]

\* client.get(url, ...) raises (timeout, connection error): no status code
TransportError == -1

\* GitHubAPIClient.get_repo_contents: the listing, or the exception raised.
\* w.list_status[path] is the upstream status code, or TransportError when
\* httpx raises instead of answering.
get_repo_contents(w, path) ==
    LET st == w.list_status[path]
    IN  IF st = TransportError THEN [raised |-> OtherExc, data |-> <<>>]
        ELSE IF st = 404 THEN [raised |-> HttpExc(404), data |-> <<>>]
        ELSE IF st = 403 THEN [raised |-> HttpExc(403), data |-> <<>>]
        ELSE IF st # 200 THEN [raised |-> HttpExc(st), data |-> <<>>]
        ELSE [raised |-> NoExc, data |-> w.listing[path]]

\* faulty variant: a content request answered with another status than 200 raises
get_file_content_raises(w, path) ==
    LET r == w.file[path]
    IN  IF r.status = TransportError THEN [raised |-> OtherExc, data |-> <<>>]
        ELSE IF r.status # 200 THEN [raised |-> HttpExc(r.status), data |-> <<>>]
        ELSE [raised |-> NoExc,
              data |-> [path |-> path, name |-> path[Len(path)], type |-> "file",
                        size |-> r.size,
                        content |-> IF r.utf8 THEN r.content ELSE BinarySentinel]]

\* GitHubAPIClient.get_file_content: the record returned, or the exception
get_file_content(w, path) ==
    LET r == w.file[path]
    IN  IF r.status = TransportError THEN [raised |-> OtherExc, data |-> <<>>]
        ELSE IF r.status # 200
        THEN [raised |-> NoExc,
              data |-> [path |-> path, type |-> "error",
                        content |-> FailedContent(r.status)]]
        ELSE [raised |-> NoExc,
              data |-> [path |-> path, name |-> path[Len(path)], type |-> "file",
                        size |-> r.size,
                        content |-> IF r.utf8 THEN r.content ELSE BinarySentinel]]

\* faulty variant: a request is sent again after it was answered
RequestedTwice(log, path) == Append(Append(log, path), path)

\* the one client.get of get_repo_contents and of get_file_content: the
\* requests made so far, with the one for path
Requested(log, path) == Append(log, path)

\* faulty variant: a directory's files are put before the files found so far
extend_front(files, subdir_files) == subdir_files \o files

\* all_files.extend(subdir_files)
extend(files, subdir_files) == files \o subdir_files

RECURSIVE fetch_all_files_recursive(_, _)
RECURSIVE FetchItems(_, _, _, _)

\* the loop "for item in contents" of fetch_all_files_recursive from item i on,
\* with all_files = acc and the requests made so far = log
FetchItems(w, items, acc, log) ==
    IF items = <<>> THEN [raised |-> NoExc, files |-> acc, log |-> log]
    ELSE
      LET item == Head(items)
          item_path == Get(item, "path", <<>>)
          item_type == Get(item, "type", "")
          item_name == Get(item, "name", <<>>)
      IN  IF item_type = "file"
          THEN IF should_ignore_file(item_name)
               THEN FetchItems(w, Tail(items), acc, log)
               ELSE LET r == get_file_content(w, item_path)
                        log2 == Requested(log, item_path)
                    IN  IF r.raised # NoExc
                        THEN [raised |-> r.raised, files |-> acc, log |-> log2]
                        ELSE FetchItems(w, Tail(items), Append(acc, r.data), log2)
          ELSE IF item_type = "dir"
          THEN LET sub == fetch_all_files_recursive(w, item_path)
                   log2 == log \o sub.log
               IN  IF sub.raised # NoExc
                   THEN [raised |-> sub.raised, files |-> acc, log |-> log2]
                   ELSE FetchItems(w, Tail(items), extend(acc, sub.files), log2)
          ELSE FetchItems(w, Tail(items), acc, log)

\* GitHubAPIClient.fetch_all_files_recursive: an HTTPException is re-raised,
\* any other exception is logged and the files collected so far are returned
fetch_all_files_recursive(w, path) ==
    LET c == get_repo_contents(w, path)
        r == IF c.raised # NoExc
             THEN [raised |-> c.raised, files |-> <<>>, log |-> Requested(<<>>, path)]
             ELSE FetchItems(w, c.data, <<>>, Requested(<<>>, path))
    IN  IF r.raised = NoExc THEN r
        ELSE IF r.raised.exc = "HTTPException" THEN r
        ELSE [raised |-> NoExc, files |-> r.files, log |-> r.log]

\* The repository the model fetches: README.md, LOGO.PNG and src/main.py
NameReadme == <<"README", ".md">>
NameLogo == <<"LOGO", ".PNG">>
NameSrc == <<"src">>
NameMain == <<"main", ".py">>

Entry(path, type) == [path |-> path, name |-> path[Len(path)], type |-> type]

TreeListing ==
    ( <<>> :> <<Entry(<<NameReadme>>, "file"), Entry(<<NameLogo>>, "file"),
                Entry(<<NameSrc>>, "dir")>> )
    @@ ( <<NameSrc>> :> <<Entry(<<NameSrc, NameMain>>, "file")>> )

TreeFiles ==
    ( <<NameReadme>> :> [status |-> 200, utf8 |-> TRUE, size |-> 9,
                         content |-> <<"# Project", "\n", "A long description">>] )
    @@ ( <<NameLogo>> :> [status |-> 200, utf8 |-> FALSE, size |-> 3,
                          content |-> <<>>] )
    @@ ( <<NameSrc, NameMain>> :> [status |-> 200, utf8 |-> TRUE, size |-> 20,
                                   content |-> <<"print('hello world')">>] )

\* what the GitHub API answers: every listing 200 but the ones named
WorldWith(root_status, src_status) ==
    [listing |-> TreeListing,
     list_status |-> ( <<>> :> root_status ) @@ ( <<NameSrc>> :> src_status ),
     file |-> TreeFiles]

\* every listing 200, the content request for src/main.py answered status
WorldFileStatus(status) ==
    [WorldWith(200, 200) EXCEPT !.file[<<NameSrc, NameMain>>].status = status]

Worlds ==
    { WorldWith(200, 200), WorldWith(404, 200), WorldWith(403, 200),
      WorldWith(502, 200), WorldWith(200, 404),
      WorldWith(TransportError, 200), WorldWith(200, TransportError),
      WorldFileStatus(404), WorldFileStatus(TransportError) }

\* Repositories for the ingestion: the root directory lists some of these
\* entries, in any order. An entry is a file with the answer GitHub gives for
\* its content, the directory docs holding one README.md, or the submodule
\* vendor.
Answer(status, utf8, size, content) ==
    [status |-> status, utf8 |-> utf8, size |-> size, content |-> content]

GoodText == <<"# Project", "\n", "A long description">>

FileEntry(name, answer) == [name |-> name, type |-> "file", file |-> answer]

EntryPool ==
    { FileEntry(NameReadme, Answer(200, TRUE, 28, GoodText)),
      FileEntry(<<"Readme", ".rst">>, Answer(200, TRUE, 28, GoodText)),
      [name |-> <<"docs">>, type |-> "dir",
       child |-> FileEntry(NameReadme, Answer(200, TRUE, 28, GoodText))],
      FileEntry(NameMain, Answer(200, TRUE, 20, <<"print('hello world')">>)),
      FileEntry(<<"api", ".js">>,
                Answer(200, TRUE, 30, <<"throw Error('", "Failed to fetch", "')">>)),
      FileEntry(NameLogo, Answer(200, FALSE, 3, <<>>)),
      FileEntry(<<"notes", ".txt">>, Answer(200, TRUE, 8, <<"  ", "x = 1", "\n">>)),
      FileEntry(<<"Dockerfile">>, Answer(200, TRUE, 13, <<"FROM python:3">>)),
      FileEntry(<<"blob", ".txt">>, Answer(200, FALSE, 16, <<>>)),
      FileEntry(<<"NOTICE">>, Answer(200, TRUE, 28, GoodText)),
      FileEntry(<<"empty", ".py">>, Answer(200, TRUE, 0, <<>>)),
      FileEntry(<<"gone", ".py">>, Answer(404, TRUE, 0, <<>>)),
      [name |-> <<"vendor">>, type |-> "submodule"] }

\* entries listed in one directory
MaxEntries == 3

\* the root listings: sequences of distinct entries
RootListings ==
    UNION { { es \in [1..n -> EntryPool] :
                \A i, j \in 1..n : i # j => es[i] # es[j] } : n \in 1..MaxEntries }

\* what the GitHub API answers for the repository whose root lists es
TreeWorld(es) ==
    LET dirs == {i \in 1..Len(es) : es[i].type = "dir"}
        files == {i \in 1..Len(es) : es[i].type = "file"}
        ChildPath(i) == <<es[i].name, es[i].child.name>>
    IN  [listing |->
            [p \in {<<>>} \cup {<<es[i].name>> : i \in dirs} |->
                IF p = <<>>
                THEN [i \in 1..Len(es) |-> Entry(<<es[i].name>>, es[i].type)]
                ELSE LET i == CHOOSE i \in dirs : es[i].name = p[1]
                     IN  <<Entry(ChildPath(i), "file")>>],
         list_status |->
            [p \in {<<>>} \cup {<<es[i].name>> : i \in dirs} |-> 200],
         file |->
            [p \in {<<es[i].name>> : i \in files} \cup {ChildPath(i) : i \in dirs} |->
                IF Len(p) = 1
                THEN (LET i == CHOOSE i \in files : es[i].name = p[1] IN es[i].file)
                ELSE (LET i == CHOOSE i \in dirs : es[i].name = p[1]
                      IN  es[i].child.file)]]

IngestWorlds == { TreeWorld(es) : es \in RootListings }

----------------------------------------------------------------------------
(* vectara_client.py *)

\* TEXT_CODE_EXTENSIONS
TEXT_CODE_EXTENSIONS ==
    {".py", ".js", ".ts", ".jsx", ".tsx", ".java", ".cpp", ".c", ".h", ".hpp",
     ".cs", ".rb", ".go", ".rs", ".swift", ".kt", ".scala", ".php", ".sh",
     ".bash", ".zsh", ".fish", ".ps1", ".r", ".lua", ".perl", ".pl",
     ".html", ".htm", ".css", ".scss", ".sass", ".less", ".vue", ".svelte",
     ".json", ".xml", ".yaml", ".yml", ".toml", ".ini", ".cfg", ".conf",
     ".env", ".properties", ".config",
     ".md", ".markdown", ".rst", ".txt", ".adoc", ".tex",
     ".gradle", ".maven", ".sbt", ".cmake", ".make", "makefile",
     ".dockerfile", "dockerfile",
     ".sql", ".graphql", ".prisma"}

\* README_PATTERNS
README_PATTERNS ==
    { <<"readme", ".md">>, <<"readme">>, <<"readme", ".txt">>, <<"readme", ".rst">>,
      <<"read_me", ".md">>, <<"read_me">>, <<"read", ".me">>,
      <<"readme", ".markdown">> }

\* the names should_ingest_file accepts without an extension
KnownExtensionless ==
    { <<"dockerfile">>, <<"makefile">>, <<"jenkinsfile">>, <<"vagrantfile">>,
      <<"gemfile">>, <<"rakefile">>, <<"procfile">>, <<"license">>,
      <<"gitignore">> }

\* VectaraClient.should_ingest_file
should_ingest_file(file_data) ==
    LET filename == Lower(Get(file_data, "name", <<>>))
        content == Get(file_data, "content", <<>>)
        extension == LowerTok(SplitExt(filename))
    IN  IF content = <<>> \/ Head(content) = "[Binary content"
           \/ (\E i \in 1..Len(content) : content[i] = "Failed to fetch")
        THEN FALSE
        ELSE IF StripLen(content) < 10 THEN FALSE
        ELSE IF extension = "" THEN filename \in KnownExtensionless
        ELSE extension \in TEXT_CODE_EXTENSIONS

IsReadme(file_data) == Lower(Get(file_data, "name", <<>>)) \in README_PATTERNS

IsOther(file_data) == ~IsReadme(file_data)

LowerPath(path) == [i \in 1..Len(path) |-> Lower(path[i])]

IsRootReadmeMd(file_data) == LowerPath(file_data.path) = << <<"readme", ".md">> >>

\* faulty variant: the first README-like file is kept, wherever it is
filter_readme_files_first(files) ==
    LET readme_files == SelectSeq(files, IsReadme)
        other_files == SelectSeq(files, IsOther)
    IN  IF readme_files = <<>> THEN files
        ELSE other_files \o <<Head(readme_files)>>

\* VectaraClient.filter_readme_files
filter_readme_files(files) ==
    LET readme_files == SelectSeq(files, IsReadme)
        other_files == SelectSeq(files, IsOther)
        roots == SelectSeq(readme_files, IsRootReadmeMd)
        selected_readme == IF roots # <<>> THEN Head(roots) ELSE Head(readme_files)
    IN  IF readme_files = <<>> THEN files
        ELSE other_files \o <<selected_readme>>

\* faulty variant: one retry more than the default
max_retries_four == 3 + 1

\* default of ingest_document's parameter max_retries
max_retries == 3

RECURSIVE Pow2(_)
Pow2(n) == IF n = 0 THEN 1 ELSE 2 * Pow2(n - 1)

\* faulty variant: 2 * attempt for 2 ** attempt
wait_time_linear(a) == 2 * a

\* ingest_document: wait_time = 2 ** attempt
wait_time(a) == Pow2(a)

\* ingest_document: "if attempt < max_retries - 1" (sleep and retry) as
\* against returning False
RetryAfterFailure(a) == a < max_retries - 1

\* the dictionary ingest_files returns
IngestStats(total, ingested, skipped, nfailed) ==
    [total_files |-> total, ingested |-> ingested, skipped |-> skipped,
     failed |-> nfailed]

----------------------------------------------------------------------------
(* main.py: POST /fetch-repo *)

\* JSON null / Python None where the other values are sequences
Null == <<"null">>

GsScheme == <<"g","s",":","/","/">>
GcsVideo == GsScheme \o <<"b","/","o">>
\* an object name with a space in it
GcsSpaced == GsScheme \o <<"b","/","m"," ","v">>

\* the environments the service is started in
EnvOf(token, key, gcs, auto) ==
    [GITHUB_TOKEN |-> token, VECTARA_API_KEY |-> key, GCS_URI |-> gcs,
     AUTO_RUN_PIPELINE |-> auto]

Envs ==
    { EnvOf(TRUE, TRUE, GcsVideo, "unset"),
      EnvOf(TRUE, TRUE, <<>>, "unset"),
      EnvOf(TRUE, TRUE, GcsSpaced, "unset"),
      EnvOf(TRUE, FALSE, GcsVideo, "unset"),
      EnvOf(FALSE, TRUE, GcsVideo, "unset"),
      EnvOf(TRUE, TRUE, GcsVideo, "false") }

NoWorld == [listing |-> <<>>, list_status |-> <<>>, file |-> <<>>]

NoResponse == [status_code |-> 0]

\* fetch_repository, "except Exception" around the fetch: the status code of
\* the HTTPException the handler raises for the exception it caught
FetchErrorStatus(raised) == 500

\* faulty variant: an unexpected ingestion error ends the request without a launch
AfterIngestionReraise(outcome) == IF outcome = "Exception" THEN "idle" ELSE "launch"

\* fetch_repository, the try/except around the ingestion: both except
\* clauses record the outcome in vectara_stats and fall through to the launch
AfterIngestion(outcome) == "launch"

\* a request arrives; the handler parses the URL and builds the GitHub client
ReceiveRequest(url) ==
    /\ pc = "idle"
    /\ requests < MaxRequests
    /\ requests' = requests + 1
    /\ repo_url' = url
    /\ world' = NoWorld
    /\ all_files' = <<>>
    /\ files_to_ingest' = <<>>
    /\ filtered_files' = <<>>
    /\ submitted' = <<>>
    /\ doc_index' = 0
    /\ attempt' = 0
    /\ successful' = 0
    /\ failed' = 0
    /\ vectara_stats' = [status |-> "none"]
    /\ create_log' = <<>>
    /\ sleep_log' = <<>>
    /\ doc_results' = <<>>
    /\ github_log' = <<>>
    /\ launch_log' = <<>>
    /\ LET parsed == parse_github_url(url)
       IN  IF ~parsed.ok
           THEN /\ response' = [status_code |-> parsed.status_code]
                /\ owner_repo' = <<>>
                /\ pc' = "idle"
           ELSE IF ~env.GITHUB_TOKEN
           THEN /\ response' = [status_code |-> 500]
                /\ owner_repo' = <<parsed.owner, parsed.repo>>
                /\ pc' = "idle"
           ELSE /\ response' = NoResponse
                /\ owner_repo' = <<parsed.owner, parsed.repo>>
                /\ pc' = "fetch"
    /\ UNCHANGED <<env, analyzer, tts, procs, status_file, pid_file, agent_status_file,
                   agent_log, video_response, search>>

\* github_client.fetch_all_files_recursive(owner, repo) against the answers w
FetchAll(w) ==
    /\ pc = "fetch"
    /\ world' = w
    /\ LET r == fetch_all_files_recursive(w, <<>>)
       IN  /\ github_log' = r.log
           /\ IF r.raised # NoExc
              THEN /\ response' = [status_code |-> FetchErrorStatus(r.raised)]
                   /\ all_files' = <<>>
                   /\ pc' = "idle"
              ELSE /\ all_files' = r.files
                   /\ pc' = "ingest"
                   /\ UNCHANGED response
    /\ UNCHANGED <<env, analyzer, tts, repo_url, owner_repo, files_to_ingest, filtered_files, submitted, doc_index, attempt,
                   successful, failed, vectara_stats, create_log, sleep_log,
                   doc_results, launch_log, requests, procs, status_file,
                   pid_file, agent_status_file, agent_log, video_response,
                   search>>

\* VectaraClient() and ingest_files up to its first documents.create call.
\* init is what the construction and the filtering do: "ok", "HTTPException"
\* (credentials missing, or the SDK client cannot be built) or "Exception"
\* (anything else raised inside the try block).
IngestStart(init) ==
    /\ pc = "ingest"
    /\ ~env.VECTARA_API_KEY => init = "HTTPException"
    /\ LET to_ingest == SelectSeq(filter_readme_files(all_files), should_ingest_file)
       IN  IF init = "HTTPException"
           THEN /\ vectara_stats' = [status |-> "skipped"]
                /\ pc' = AfterIngestion(init)
                /\ UNCHANGED <<files_to_ingest, filtered_files, doc_index>>
           ELSE IF init = "Exception"
           THEN /\ vectara_stats' = [status |-> "error"]
                /\ pc' = AfterIngestion(init)
                /\ UNCHANGED <<files_to_ingest, filtered_files, doc_index>>
           ELSE IF to_ingest = <<>>
           THEN /\ vectara_stats' =
                      [status |-> "done",
                       stats |-> IngestStats(Len(all_files), 0, Len(all_files), 0)]
                /\ pc' = AfterIngestion(init)
                /\ files_to_ingest' = to_ingest
                /\ filtered_files' = filter_readme_files(all_files)
                /\ UNCHANGED doc_index
           ELSE /\ files_to_ingest' = to_ingest
                /\ filtered_files' = filter_readme_files(all_files)
                /\ doc_index' = 1
                /\ pc' = "create"
                /\ UNCHANGED vectara_stats
    /\ UNCHANGED <<env, analyzer, tts, repo_url, owner_repo, world, all_files, attempt, successful,
                   failed, create_log, sleep_log, doc_results, submitted, github_log,
                   launch_log, response, requests, procs, status_file, pid_file,
                   agent_status_file, agent_log, video_response, search>>

\* faulty variant: the loop of ingest_files ends at the first failed document
LoopStopsOnFailure(result) == result

\* ingest_files, "for i, file_data in enumerate(files_to_ingest, 1)": whether
\* the loop goes on to the next file after a document returned result; a
\* failure is counted and nothing leaves the loop early. prepare_document
\* only reads string fields that should_ingest_file has read before it, and
\* ingest_document catches every Exception, so a document ends with a result.
LoopContinues(result) == TRUE

\* faulty variant: skipped counted against the list left by README de-duplication
SkippedAfterDedup(files, filtered, to_ingest) == Len(filtered) - Len(to_ingest)

\* ingest_files: skipped = len(files) - len(files_to_ingest)
Skipped(files, filtered, to_ingest) == Len(files) - Len(to_ingest)

\* ingest_files after ingest_document returned result for document doc_index:
\* the counters, and the summary once the loop is over
DocumentDone(result) ==
    LET s == IF result THEN successful + 1 ELSE successful
        f == IF result THEN failed ELSE failed + 1
    IN  /\ successful' = s
        /\ failed' = f
        /\ doc_results' = Append(doc_results, result)
        /\ attempt' = 0
        /\ IF doc_index < Len(files_to_ingest) /\ LoopContinues(result)
           THEN /\ doc_index' = doc_index + 1
                /\ UNCHANGED <<pc, vectara_stats>>
           ELSE /\ UNCHANGED doc_index
                /\ vectara_stats' =
                      [status |-> "done",
                       stats |-> IngestStats(Len(all_files), s,
                                             Skipped(all_files, filtered_files,
                                                     files_to_ingest), f)]
                /\ pc' = AfterIngestion("ok")

\* one iteration of "for attempt in range(max_retries)" of ingest_document:
\* the documents.create call succeeds (ok) or raises; a loop that runs out
\* returns False
CreateAttempt(ok) ==
    /\ pc = "create"
    /\ attempt < max_retries
    /\ create_log' = (IF attempt = 0 THEN <<>> ELSE create_log) \o <<ok>>
    /\ submitted' = IF attempt = 0
                    THEN Append(submitted, files_to_ingest[doc_index].path)
                    ELSE submitted
    /\ IF ok
       THEN /\ sleep_log' = (IF attempt = 0 THEN <<>> ELSE sleep_log)
            /\ DocumentDone(TRUE)
       ELSE IF RetryAfterFailure(attempt)
       THEN /\ sleep_log' = (IF attempt = 0 THEN <<>> ELSE sleep_log)
                              \o <<wait_time(attempt)>>
            /\ IF attempt + 1 < max_retries
               THEN /\ attempt' = attempt + 1
                    /\ UNCHANGED <<pc, doc_index, successful, failed, doc_results,
                                   vectara_stats>>
               ELSE DocumentDone(FALSE)
       ELSE /\ sleep_log' = (IF attempt = 0 THEN <<>> ELSE sleep_log)
            /\ DocumentDone(FALSE)
    /\ UNCHANGED <<env, analyzer, tts, repo_url, owner_repo, world, all_files, files_to_ingest, filtered_files,
                   github_log, launch_log, response, requests, procs, status_file,
                   pid_file, agent_status_file, agent_log, video_response,
                   search>>

\* agent_router.py sees AUTO_RUN_PIPELINE as the service has it, "true" when
\* the service has none (env.setdefault), and runs the pipeline for these
AutoRunPipeline(e) ==
    LET v == IF e.AUTO_RUN_PIPELINE = "unset" THEN "true" ELSE e.AUTO_RUN_PIPELINE
    IN  v \in {"1", "true", "yes"}

\* the process subprocess.Popen starts: agent_router.py with env; analysis is
\* the key set of the analysis.json it hands to run.py, from the save to the
\* return of subprocess.run
NewProcess(url) ==
    [pc |-> "startup", GITHUB_URL |-> url, GCS_URI |-> env.GCS_URI,
     auto_run |-> AutoRunPipeline(env), handler_errors |-> 0,
     pipeline |-> "none", payload |-> [status |-> "none"],
     analysis |-> {}]

\* fetch_repository from "Always trigger agent launch" to the return, which
\* ends the handler's local variables.
\* outcome is what the file system and Popen do: "started", "persist_failed"
\* (the process runs, its PID and status files are not written),
\* "popen_failed", "log_failed" (the log header cannot be written, Popen is not
\* reached) or "makedirs_failed".
Launch(outcome) ==
    /\ pc = "launch"
    /\ launch_log' = Append(launch_log, outcome)
    /\ IF outcome \in {"started", "persist_failed"}
       THEN procs' = Append(procs, NewProcess(repo_url))
       ELSE UNCHANGED procs
    /\ IF outcome \in {"started", "persist_failed", "popen_failed"}
       THEN agent_log' = agent_log + 1
       ELSE UNCHANGED agent_log
    /\ IF outcome = "started"
       THEN /\ pid_file' = <<Len(procs) + 1>>
            /\ agent_status_file' =
                  [status |-> "launched", pid |-> Len(procs) + 1,
                   repo_url |-> repo_url]
       ELSE UNCHANGED <<pid_file, agent_status_file>>
    /\ response' =
          [status_code |-> 200, owner |-> owner_repo[1], repo |-> owner_repo[2],
           total_files |-> Len(all_files), files |-> all_files,
           vectara_ingestion |-> vectara_stats]
    /\ pc' = "idle"
    /\ all_files' = <<>>
    /\ files_to_ingest' = <<>>
    /\ filtered_files' = <<>>
    /\ submitted' = <<>>
    /\ doc_index' = 0
    /\ attempt' = 0
    /\ successful' = 0
    /\ failed' = 0
    /\ vectara_stats' = [status |-> "none"]
    /\ create_log' = <<>>
    /\ sleep_log' = <<>>
    /\ doc_results' = <<>>
    /\ UNCHANGED <<env, analyzer, tts, repo_url, owner_repo, world, github_log, requests,
                   status_file, video_response, search>>

LaunchOutcomes ==
    {"started", "persist_failed", "popen_failed", "log_failed", "makedirs_failed"}

----------------------------------------------------------------------------
(* run.py: the end of "all" *)

\* _upload_to_gcs: TRUE when it returns gcs_uri, FALSE when it raises
\* (a URI that is not gs://bucket/obj, or the upload itself failing)
upload_to_gcs(gcs_uri, upload_ok) ==
    /\ StartsWith(gcs_uri, GsScheme)
    /\ Find(Drop(gcs_uri, Len(GsScheme)), "/") # 0
    /\ upload_ok

\* the keys of the dictionary analyze_repository returns
AnalyzerKeys ==
    {"title", "description", "user_journey", "repository"}

\* the keys of the JSON object in a reply: "analysis" is what
\* analyze_repository returns, "analysis_tech_stack" the reply of an analyzer
\* that also reports a tech stack, "error_object" {"error": ...}
ContentKeys(content) ==
    IF content = "analysis" THEN AnalyzerKeys
    ELSE IF content = "analysis_tech_stack" THEN AnalyzerKeys \cup {"tech_stack"}
    ELSE {"error"}

\* the keys the four slide prompts of "all --slides_json" read as data[key]
SlidePromptKeys ==
    {"title", "description", "user_journey", "tech_stack", "repository"}

\* how "run.py all --slides_json analysis.json" ends for an analysis.json
\* with these keys: generators is "exit0" when image generation, speech
\* synthesis and composition succeed, "nonzero" when one of them raises, and
\* "oserror" when run.py cannot be started at all.  A key the slide prompts
\* read and the data lacks is a KeyError before any generator runs.
run_all(keys, generators) ==
    IF generators = "oserror" THEN "oserror"
    ELSE IF ~ (SlidePromptKeys \subseteq keys) THEN "nonzero"
    ELSE generators

\* the lines main prints after composing the video
PipelineStdout(gcs_uri, upload_ok) ==
    <<[text |-> "Wrote", arg |-> <<"v">>]>>
    \o ( IF gcs_uri # <<>>
         THEN IF upload_to_gcs(gcs_uri, upload_ok)
              THEN <<[text |-> "Uploaded to", arg |-> gcs_uri]>>
              ELSE <<[text |-> "GCS upload failed", arg |-> <<>>]>>
         ELSE <<>> )

----------------------------------------------------------------------------
(* agent_router.py *)

StorageUrl ==
    <<"h","t","t","p","s",":","/","/","s","t","o","r","a","g","e",".",
      "g","o","o","g","l","e","a","p","i","s",".","c","o","m","/">>

\* [^\s]+ matched at the start of s: the characters before the first
\* whitespace
NonSpace(s) ==
    LET i == Find(s, " ")
    IN  IF i = 0 THEN s ELSE SubSeq(s, 1, i - 1)

\* re.search(r"Uploaded to\s+(gs://[^\s]+)", stdout): group 1, Null without match
UploadedUri(stdout) ==
    LET hits == SelectSeq(stdout,
                    LAMBDA l : l.text = "Uploaded to" /\ StartsWith(l.arg, GsScheme)
                               /\ NonSpace(Drop(l.arg, Len(GsScheme))) # <<>>)
    IN  IF hits = <<>> THEN Null
        ELSE GsScheme \o NonSpace(Drop(Head(hits).arg, Len(GsScheme)))

\* gs://bucket/path -> https://storage.googleapis.com/bucket/path, None when
\* the split fails
PublicUrl(uploaded_uri) ==
    LET without_scheme == Drop(uploaded_uri, Len(GsScheme))
        i == Find(without_scheme, "/")
    IN  IF i = 0 THEN Null
        ELSE StorageUrl \o SubSeq(without_scheme, 1, i - 1) \o <<"/">>
                        \o Drop(without_scheme, i)

\* the payload handle_response writes after a pipeline that exited 0, or
\* [status |-> "none"] when it writes nothing; p stands for the time stamp
CompletedPayload(stdout, p) ==
    LET m == UploadedUri(stdout)
    IN  IF m # Null
        THEN [status |-> "completed", gcs_uri |-> m, public_url |-> PublicUrl(m),
              updated_at |-> <<p>>]
        ELSE [status |-> "none"]

\* faulty variant: the failure is recorded under another status word
ErrorPayloadFailed(p) ==
    [status |-> "failed", error |-> <<"CalledProcessError">>, updated_at |-> <<p>>]

\* the payload handle_response writes on CalledProcessError
ErrorPayload(p) ==
    [status |-> "error", error |-> <<"CalledProcessError">>, updated_at |-> <<p>>]

\* the startup event: the analysis request is sent
AgentStartup(p) ==
    /\ p \in 1..Len(procs)
    /\ procs[p].pc = "startup"
    /\ procs' = [procs EXCEPT ![p].pc = "waiting"]
    /\ UNCHANGED <<env, analyzer, tts, pc, repo_url, owner_repo, world, all_files, files_to_ingest, filtered_files, submitted,
                   doc_index, attempt, successful, failed, vectara_stats,
                   create_log, sleep_log, doc_results, github_log, launch_log,
                   response, requests, status_file, pid_file, agent_status_file,
                   agent_log, video_response, search>>

\* handle_response up to subprocess.run: content is "analysis",
\* "analysis_tech_stack", "error_object" (all parse as JSON and are saved to
\* analysis.json) or "not_json"
HandleResponse(p, content) ==
    /\ p \in 1..Len(procs)
    /\ procs[p].pc = "waiting"
    /\ IF content = "not_json"
       THEN procs' = [procs EXCEPT ![p].handler_errors = 1]
       ELSE IF procs[p].auto_run
       THEN procs' = [procs EXCEPT ![p].pc = "pipeline",
                                   ![p].analysis = ContentKeys(content)]
       ELSE procs' = [procs EXCEPT ![p].pc = "exiting"]
    /\ UNCHANGED <<env, analyzer, tts, pc, repo_url, owner_repo, world, all_files, files_to_ingest, filtered_files, submitted,
                   doc_index, attempt, successful, failed, vectara_stats,
                   create_log, sleep_log, doc_results, github_log, launch_log,
                   response, requests, status_file, pid_file, agent_status_file,
                   agent_log, video_response, search>>

\* subprocess.run returns or raises: generators is how the steps of run.py
\* after the slide prompts go, result is "exit0", "nonzero"
\* (CalledProcessError) or "oserror" (run.py could not be started); upload_ok
\* is whether the upload inside the pipeline worked.  A payload to write opens
\* the status file for writing, which truncates it.
PipelineFinish(p, generators, upload_ok) ==
    /\ p \in 1..Len(procs)
    /\ procs[p].pc = "pipeline"
    /\ LET result == run_all(procs[p].analysis, generators)
           stdout == PipelineStdout(procs[p].GCS_URI, upload_ok)
           payload == IF result = "exit0" THEN CompletedPayload(stdout, p)
                      ELSE IF result = "nonzero" THEN ErrorPayload(p)
                      ELSE [status |-> "none"]
           outcome == IF result # "exit0" THEN result
                      ELSE IF procs[p].GCS_URI = <<>> THEN "exit0_no_upload"
                      ELSE IF UploadedUri(stdout) = Null THEN "exit0_upload_failed"
                      ELSE "exit0_uploaded"
       IN  IF result = "oserror"
           THEN /\ procs' = [procs EXCEPT ![p].pc = "waiting",
                                          ![p].handler_errors = 1,
                                          ![p].pipeline = outcome,
                                          ![p].analysis = {}]
                /\ UNCHANGED status_file
           ELSE IF payload.status = "none"
           THEN /\ procs' = [procs EXCEPT ![p].pc = "exiting",
                                          ![p].pipeline = outcome,
                                          ![p].analysis = {}]
                /\ UNCHANGED status_file
           ELSE /\ procs' = [procs EXCEPT ![p].pc = "dumping",
                                          ![p].pipeline = outcome,
                                          ![p].analysis = {},
                                          ![p].payload = payload]
                /\ status_file' = [state |-> "empty"]
    /\ UNCHANGED <<env, analyzer, tts, pc, repo_url, owner_repo, world, all_files, files_to_ingest, filtered_files, submitted,
                   doc_index, attempt, successful, failed, vectara_stats,
                   create_log, sleep_log, doc_results, github_log, launch_log,
                   response, requests, pid_file, agent_status_file, agent_log,
                   video_response, search>>

\* json.dump(payload, f) and the close of the status file
DumpStatus(p) ==
    /\ p \in 1..Len(procs)
    /\ procs[p].pc = "dumping"
    /\ status_file' = [state |-> "json", data |-> procs[p].payload]
    /\ procs' = [procs EXCEPT ![p].pc = "exiting",
                              ![p].payload = [status |-> "none"]]
    /\ UNCHANGED <<env, analyzer, tts, pc, repo_url, owner_repo, world, all_files, files_to_ingest, filtered_files, submitted,
                   doc_index, attempt, successful, failed, vectara_stats,
                   create_log, sleep_log, doc_results, github_log, launch_log,
                   response, requests, pid_file, agent_status_file, agent_log,
                   video_response, search>>

\* os._exit(0), one second after handle_response scheduled it: the process
\* and what it held in memory are gone
AgentExit(p) ==
    /\ p \in 1..Len(procs)
    /\ procs[p].pc = "exiting"
    /\ procs' = [procs EXCEPT ![p].pc = "exited", ![p].pipeline = "none",
                              ![p].handler_errors = 0]
    /\ UNCHANGED <<env, analyzer, tts, pc, repo_url, owner_repo, world, all_files, files_to_ingest, filtered_files, submitted,
                   doc_index, attempt, successful, failed, vectara_stats,
                   create_log, sleep_log, doc_results, github_log, launch_log,
                   response, requests, status_file, pid_file, agent_status_file,
                   agent_log, video_response, search>>

----------------------------------------------------------------------------
(* main.py: GET /video-status *)

\* faulty variant: the endpoint derives public_url from gcs_uri when the file has none
video_status_derives(file) ==
    IF file.state = "absent"
    THEN [status_code |-> 200, status |-> "pending", gcs_uri |-> Null,
          public_url |-> Null, updated_at |-> Null]
    ELSE IF file.state = "empty"
    THEN [status_code |-> 500]
    ELSE [status_code |-> 200,
          status |-> Get(file.data, "status", "unknown"),
          gcs_uri |-> Get(file.data, "gcs_uri", Null),
          public_url |-> IF "public_url" \in DOMAIN file.data
                         THEN file.data.public_url
                         ELSE IF "gcs_uri" \in DOMAIN file.data
                         THEN PublicUrl(file.data.gcs_uri) ELSE Null,
          updated_at |-> Get(file.data, "updated_at", Null)]

\* faulty variant: a missing status file is read like any other and the failure
\* answered 500
video_status_no_exists_check(file) ==
    IF file.state \in {"absent", "empty"}
    THEN [status_code |-> 500]
    ELSE [status_code |-> 200,
          status |-> Get(file.data, "status", "unknown"),
          gcs_uri |-> Get(file.data, "gcs_uri", Null),
          public_url |-> Get(file.data, "public_url", Null),
          updated_at |-> Get(file.data, "updated_at", Null)]

\* faulty variant: a status file that cannot be parsed is read as an empty
\* object
video_status_lenient(file) ==
    IF file.state = "absent"
    THEN [status_code |-> 200, status |-> "pending", gcs_uri |-> Null,
          public_url |-> Null, updated_at |-> Null]
    ELSE IF file.state = "empty"
    THEN [status_code |-> 200, status |-> "unknown", gcs_uri |-> Null,
          public_url |-> Null, updated_at |-> Null]
    ELSE [status_code |-> 200,
          status |-> Get(file.data, "status", "unknown"),
          gcs_uri |-> Get(file.data, "gcs_uri", Null),
          public_url |-> Get(file.data, "public_url", Null),
          updated_at |-> Get(file.data, "updated_at", Null)]

\* video_status: the response for the status file as it is when read.  The
\* state "empty" is the file between the truncation by open(..., "w") and the
\* close that completes json.dump; like the empty file, any proper prefix of
\* the dumped object makes json.load raise.
video_status(file) ==
    IF file.state = "absent"
    THEN [status_code |-> 200, status |-> "pending", gcs_uri |-> Null,
          public_url |-> Null, updated_at |-> Null]
    ELSE IF file.state = "empty"
    THEN [status_code |-> 500]
    ELSE [status_code |-> 200,
          status |-> Get(file.data, "status", "unknown"),
          gcs_uri |-> Get(file.data, "gcs_uri", Null),
          public_url |-> Get(file.data, "public_url", Null),
          updated_at |-> Get(file.data, "updated_at", Null)]

\* a client sends GET /video-status
VideoStatusRequest ==
    /\ video_response # NoResponse
    /\ video_response' = NoResponse
    /\ UNCHANGED <<env, analyzer, tts, pc, repo_url, owner_repo, world, all_files, files_to_ingest, filtered_files, submitted,
                   doc_index, attempt, successful, failed, vectara_stats,
                   create_log, sleep_log, doc_results, github_log, launch_log,
                   response, requests, procs, status_file, pid_file,
                   agent_status_file, agent_log, search>>

\* the handler video_status answers it
VideoStatus ==
    /\ video_response = NoResponse
    /\ video_response' = video_status(status_file)
    /\ UNCHANGED <<env, analyzer, tts, pc, repo_url, owner_repo, world, all_files, files_to_ingest, filtered_files, submitted,
                   doc_index, attempt, successful, failed, vectara_stats,
                   create_log, sleep_log, doc_results, github_log, launch_log,
                   response, requests, procs, status_file, pid_file,
                   agent_status_file, agent_log, search>>

----------------------------------------------------------------------------
(* main.py: POST /search, and VectaraClient.search_corpus *)

\* requested limits range over -LimitsBelow .. MaxRequestedLimit
LimitsBelow == 3
MaxRequestedLimit == 23

Min(a, b) == IF a < b THEN a ELSE b

\* faulty variant: Field(5, ge=1) without the upper bound
ValidLimitNoMax(limit) == limit >= 1

\* SearchRequest.limit: Field(5, ge=1, le=20); a request that fails
\* validation is answered 422 before the handler runs
ValidLimit(limit) == limit >= 1 /\ limit <= 20

\* search_corpus: SearchCorporaParameters(limit=min(limit, 20))
SearchLimit(limit) == Min(limit, 20)

\* faulty variant: the commented-out filter expressions are in force
MetadataFilterApplied(repo_filter, owner_filter) ==
    IF repo_filter # Null /\ owner_filter # Null
    THEN <<"doc.repo = '">> \o owner_filter \o <<"/">> \o repo_filter \o <<"'">>
    ELSE IF owner_filter # Null THEN <<"doc.owner = '">> \o owner_filter \o <<"'">>
    ELSE IF repo_filter # Null THEN <<"doc.repo contains '">> \o repo_filter \o <<"'">>
    ELSE Null

\* search_corpus: the metadata filter sent (filter_str stays None)
MetadataFilter(repo_filter, owner_filter) == Null

\* search_corpus: the query handed to client.query
CorpusQuery(limit, repo_filter, owner_filter) ==
    [limit |-> SearchLimit(limit),
     metadata_filter |-> MetadataFilter(repo_filter, owner_filter),
     max_used_search_results |-> Min(limit, 10)]

NoSearch == [status_code |-> 0, limit |-> 0, repo |-> Null, owner |-> Null,
             queries |-> <<>>]

\* POST /search {limit, repo, owner}; corpus_ok is whether client.query returns
PostSearch(limit, repo, owner, corpus_ok) ==
    /\ IF ~ValidLimit(limit)
       THEN search' = [status_code |-> 422, limit |-> limit, repo |-> repo,
                       owner |-> owner, queries |-> <<>>]
       ELSE IF ~env.VECTARA_API_KEY
       THEN search' = [status_code |-> 500, limit |-> limit, repo |-> repo,
                       owner |-> owner, queries |-> <<>>]
       ELSE search' = [status_code |-> IF corpus_ok THEN 200 ELSE 500,
                       limit |-> limit, repo |-> repo, owner |-> owner,
                       queries |-> <<CorpusQuery(limit, repo, owner)>>]
    /\ UNCHANGED <<env, analyzer, tts, pc, repo_url, owner_repo, world, all_files, files_to_ingest, filtered_files, submitted,
                   doc_index, attempt, successful, failed, vectara_stats,
                   create_log, sleep_log, doc_results, github_log, launch_log,
                   response, requests, procs, status_file, pid_file,
                   agent_status_file, agent_log, video_response>>

----------------------------------------------------------------------------
(* repository_analyzer.py *)

\* request messages handled in one behaviour
MaxMessages == 2

RECURSIVE LStrip(_, _)
\* str.lstrip(c)
LStrip(s, c) ==
    IF Len(s) > 0 /\ Head(s) = c THEN LStrip(Tail(s), c) ELSE s

\* str.strip(c)
Strip(s, c) == LStrip(RStrip(s, c), c)

\* urlparse(url) for a URL without query or fragment: the netloc runs from
\* the "//" after the scheme to the next "/", the path is the rest; brackets
\* in the netloc that do not pair up raise ValueError
urlparse(url) ==
    LET scheme == IF StartsWith(url, HTTPS_SCHEME) THEN HTTPS_SCHEME
                  ELSE IF StartsWith(url, HTTP_SCHEME) THEN HTTP_SCHEME
                  ELSE <<>>
        rest == Drop(url, Len(scheme))
        j == Find(rest, "/")
        netloc == IF scheme = <<>> THEN <<>>
                  ELSE IF j = 0 THEN rest ELSE SubSeq(rest, 1, j - 1)
        path == IF scheme = <<>> THEN rest
                ELSE IF j = 0 THEN <<>> ELSE Drop(rest, j - 1)
    IN  IF (Find(netloc, "[") # 0) # (Find(netloc, "]") # 0)
        THEN [raised |-> "ValueError", path |-> <<>>]
        ELSE [raised |-> None, path |-> path]

UnknownRepository == <<"Unknown Repository">>

\* extract_repo_title
extract_repo_title(git_url) ==
    LET parsed == urlparse(git_url)
        path == Strip(parsed.path, "/")
    IN  IF parsed.raised # None THEN [raised |-> parsed.raised, title |-> <<>>]
        ELSE [raised |-> None,
              title |-> IF path # <<>> THEN path ELSE UnknownRepository]

\* what the corpus does with a query: "summary" (200, a response set with a
\* summary), "no_results" (200, an empty response set), "request_error" (an
\* error status, a timeout, a connection error: RequestException) or
\* "empty_summary" (200, a response set whose summary list is empty)
CorpusAnswers == {"summary", "no_results", "request_error", "empty_summary"}

\* what the generative model does with a prompt: "text", or "raises" (the
\* call raises, or the response has no text)
ModelAnswers == {"text", "raises"}

\* VectaraQnA.query: the dictionary returned, or the exception raised
query(answer) ==
    IF answer = "request_error"
    THEN [raised |-> None, result |-> [error |-> "API request failed"]]
    ELSE IF answer = "no_results"
    THEN [raised |-> None, result |-> [answer |-> "No results found", sources |-> 0]]
    ELSE IF answer = "empty_summary"
    THEN [raised |-> "IndexError", result |-> [error |-> "IndexError"]]
    ELSE [raised |-> None, result |-> [answer |-> "summary", sources |-> 1]]

\* VectaraQnA.ask: None (truthy FALSE) for an error result
ask(answer) ==
    LET r == query(answer)
    IN  [raised |-> r.raised,
         truthy |-> r.raised = None /\ "error" \notin DOMAIN r.result]

GeminiFailed == "Gemini summarization failed"

\* one "if r: try: ... except" block of analyze_repository: the text of the
\* field and the model calls made
summarize(r, model) ==
    IF ~r.truthy THEN [text |-> "", calls |-> <<>>]
    ELSE [text |-> IF model = "text" THEN "summary" ELSE GeminiFailed,
          calls |-> <<[op |-> "generate_content", outcome |-> model]>>]

\* analyze_repository: the info returned or the exception raised, and the
\* corpus queries and model calls made, in order
analyze_repository(git_url, a1, g1, a2, g2) ==
    LET t == extract_repo_title(git_url)
        r1 == ask(a1)
        s1 == summarize(r1, g1)
        r2 == ask(a2)
        s2 == summarize(r2, g2)
        c1 == <<[op |-> "query", outcome |-> a1]>>
        c2 == <<[op |-> "query", outcome |-> a2]>>
        info == [title |-> t.title, description |-> s1.text,
                 user_journey |-> s2.text, repository |-> git_url]
    IN  IF t.raised # None
        THEN [raised |-> t.raised, calls |-> <<>>, info |-> [title |-> <<>>]]
        ELSE IF r1.raised # None
        THEN [raised |-> r1.raised, calls |-> c1, info |-> [title |-> t.title]]
        ELSE IF r2.raised # None
        THEN [raised |-> r2.raised, calls |-> c1 \o s1.calls \o c2,
              info |-> [title |-> t.title]]
        ELSE [raised |-> None, calls |-> c1 \o s1.calls \o c2 \o s2.calls,
              info |-> info]

\* the request messages: content that is not JSON, a JSON list, and JSON
\* objects without repository_url, with a blank one, with a repository URL
\* and with a URL whose host has an unpaired bracket
NotJsonMessage == [json |-> "invalid", payload |-> [action |-> <<>>]]
ListMessage == [json |-> "list", payload |-> [action |-> <<>>]]
UrlMessage(url) ==
    [json |-> "object",
     payload |-> [action |-> <<"analyze_repository">>, repository_url |-> url]]
UrlBracket == HTTPS_SCHEME \o <<"[", "/", "o", "/", "r">>
Messages ==
    { NotJsonMessage, ListMessage,
      [json |-> "object", payload |-> [action |-> <<"analyze_repository">>]],
      UrlMessage(<<" ">>), UrlMessage(UrlHttps), UrlMessage(UrlBracket) }

ErrorReply(error) == [kind |-> "error", error |-> error]

\* faulty variant: the handler goes on after the reply for a missing
\* repository_url
handle_message_no_return(msg, a1, g1, a2, g2) ==
    IF msg.json = "invalid"
    THEN [replies |-> <<ErrorReply("JSONDecodeError")>>, calls |-> <<>>,
          analysis |-> "not_run"]
    ELSE IF msg.json # "object"
    THEN [replies |-> <<ErrorReply("AttributeError")>>, calls |-> <<>>,
          analysis |-> "not_run"]
    ELSE
      LET git_url == Strip(Get(msg.payload, "repository_url", <<>>), " ")
          r == analyze_repository(git_url, a1, g1, a2, g2)
          missing == IF git_url = <<>>
                     THEN <<ErrorReply("Missing repository_url")>> ELSE <<>>
      IN  IF r.raised # None
          THEN [replies |-> missing \o <<ErrorReply(r.raised)>>, calls |-> r.calls,
                analysis |-> r.raised]
          ELSE [replies |-> missing \o <<[kind |-> "analysis", result |-> r.info]>>,
                calls |-> r.calls, analysis |-> "returned"]

\* handle_message: the replies sent to the sender, the calls made, and how
\* analyze_repository ended ("not_run", "returned", or the exception raised)
handle_message(msg, a1, g1, a2, g2) ==
    IF msg.json = "invalid"
    THEN [replies |-> <<ErrorReply("JSONDecodeError")>>, calls |-> <<>>,
          analysis |-> "not_run"]
    ELSE IF msg.json # "object"
    THEN [replies |-> <<ErrorReply("AttributeError")>>, calls |-> <<>>,
          analysis |-> "not_run"]
    ELSE
      LET git_url == Strip(Get(msg.payload, "repository_url", <<>>), " ")
          r == analyze_repository(git_url, a1, g1, a2, g2)
      IN  IF git_url = <<>>
          THEN [replies |-> <<ErrorReply("Missing repository_url")>>,
                calls |-> <<>>, analysis |-> "not_run"]
          ELSE IF r.raised # None
          THEN [replies |-> <<ErrorReply(r.raised)>>, calls |-> r.calls,
                analysis |-> r.raised]
          ELSE [replies |-> <<[kind |-> "analysis", result |-> r.info]>>,
                calls |-> r.calls, analysis |-> "returned"]

\* the analyzer agent handles one request message
HandleMessage(msg, a1, g1, a2, g2) ==
    /\ Len(analyzer) < MaxMessages
    /\ LET h == handle_message(msg, a1, g1, a2, g2)
       IN  analyzer' = Append(analyzer,
                              [msg |-> msg, replies |-> h.replies,
                               calls |-> h.calls, analysis |-> h.analysis])
    /\ UNCHANGED <<env, tts, pc, repo_url, owner_repo, world, all_files,
                   files_to_ingest, filtered_files, submitted, doc_index,
                   attempt, successful, failed, vectara_stats, create_log,
                   sleep_log, doc_results, github_log, launch_log, response,
                   requests, procs, status_file, pid_file, agent_status_file,
                   agent_log, video_response, search>>

----------------------------------------------------------------------------
(* generate_tts.py *)

\* narration blocks run.py synthesises in one run, one per slide
MaxSlides == 4

\* no run.py process has started synthesising
NoTts == [backend |-> "none", project |-> FALSE, log |-> <<>>]

\* _tts_gemini: "ok" (audio bytes), "error" (an exception: the model call
\* fails, or the response carries no audio) or "SystemExit" (init_client
\* finds no VERTEX_AI_PROJECT_ID, prints and calls sys.exit(1)); project is
\* whether VERTEX_AI_PROJECT_ID is set, gemini what the model call does
tts_gemini(project, gemini) ==
    IF ~project THEN "SystemExit" ELSE gemini

\* backend in ("auto", "gemini")
tries_gemini(backend) == backend \in {"auto", "gemini"}

\* generate_tts: the backends called, in order, and how the call ends:
\* "written" (the wave file is written and its name returned), "exit1"
\* (SystemExit(1)) or "raised" (an exception leaves generate_tts).  cloud is
\* what _tts_cloud does: "ok", "error" (the client or the request raises) or
\* "missing_dependency" (the import fails: print and sys.exit(1)).
generate_tts(backend, project, gemini, cloud) ==
    LET g == IF tries_gemini(backend) THEN tts_gemini(project, gemini)
             ELSE "skipped"
        gcalls == IF g = "skipped" THEN <<>> ELSE <<"_tts_gemini">>
    IN  IF g = "SystemExit"
        THEN [gemini |-> g, cloud |-> "skipped", calls |-> gcalls,
              outcome |-> "exit1"]
        ELSE IF g = "error" /\ backend = "gemini"
        THEN [gemini |-> g, cloud |-> "skipped", calls |-> gcalls,
              outcome |-> "exit1"]
        ELSE IF g = "ok"
        THEN [gemini |-> g, cloud |-> "skipped", calls |-> gcalls,
              outcome |-> "written"]
        ELSE [gemini |-> g, cloud |-> cloud,
              calls |-> Append(gcalls, "_tts_cloud"),
              outcome |-> IF cloud = "ok" THEN "written"
                          ELSE IF cloud = "missing_dependency" THEN "exit1"
                          ELSE "raised"]

\* run.py starts synthesising with --tts_backend backend, in an environment
\* that has VERTEX_AI_PROJECT_ID or not
TtsStart(backend, project) ==
    /\ tts = NoTts
    /\ tts' = [backend |-> backend, project |-> project, log |-> <<>>]
    /\ UNCHANGED <<env, analyzer, pc, repo_url, owner_repo, world, all_files,
                   files_to_ingest, filtered_files, submitted, doc_index,
                   attempt, successful, failed, vectara_stats, create_log,
                   sleep_log, doc_results, github_log, launch_log, response,
                   requests, procs, status_file, pid_file, agent_status_file,
                   agent_log, video_response, search>>

\* the next generate_tts call of the loop over the narration blocks; the
\* loop, and the process, end with the first call that does not return
Narrate(gemini, cloud) ==
    /\ tts.backend # "none"
    /\ Len(tts.log) < MaxSlides
    /\ tts.log # <<>> => tts.log[Len(tts.log)].outcome = "written"
    /\ tts' = [tts EXCEPT !.log =
                  Append(@, generate_tts(tts.backend, tts.project, gemini, cloud))]
    /\ UNCHANGED <<env, analyzer, pc, repo_url, owner_repo, world, all_files,
                   files_to_ingest, filtered_files, submitted, doc_index,
                   attempt, successful, failed, vectara_stats, create_log,
                   sleep_log, doc_results, github_log, launch_log, response,
                   requests, procs, status_file, pid_file, agent_status_file,
                   agent_log, video_response, search>>

----------------------------------------------------------------------------
(* The specifications *)

\* a status file left in the output directory by an earlier run of a writer
\* that recorded the upload only
LeftoverStatus ==
    [state |-> "json", data |-> [status |-> "completed", gcs_uri |-> GcsVideo]]

\* the service starts: its environment, and what is in the output directory
Starts ==
    { <<e, [state |-> "absent"]>> : e \in Envs }
    \cup { <<EnvOf(TRUE, TRUE, GcsVideo, "unset"), LeftoverStatus>> }

Init ==
    /\ \E st \in Starts : env = st[1] /\ status_file = st[2]
    /\ pc = "idle"
    /\ repo_url = <<>>
    /\ owner_repo = <<>>
    /\ world = NoWorld
    /\ all_files = <<>>
    /\ files_to_ingest = <<>>
    /\ filtered_files = <<>>
    /\ submitted = <<>>
    /\ doc_index = 0
    /\ attempt = 0
    /\ successful = 0
    /\ failed = 0
    /\ vectara_stats = [status |-> "none"]
    /\ create_log = <<>>
    /\ sleep_log = <<>>
    /\ doc_results = <<>>
    /\ github_log = <<>>
    /\ launch_log = <<>>
    /\ response = NoResponse
    /\ requests = 0
    /\ procs = <<>>
    /\ pid_file = <<>>
    /\ agent_status_file = [status |-> "none"]
    /\ agent_log = 0
    /\ video_response = NoResponse
    /\ search = NoSearch
    /\ analyzer = <<>>
    /\ tts = NoTts

\* POST /fetch-repo, from the request to its response
Next ==
    \/ \E url \in RequestUrls : ReceiveRequest(url)
    \/ \E w \in Worlds : FetchAll(w)
    \/ \E init \in {"ok", "HTTPException", "Exception"} : IngestStart(init)
    \/ \E ok \in BOOLEAN : CreateAttempt(ok)
    \/ \E outcome \in LaunchOutcomes : Launch(outcome)

Spec == Init /\ [][Next]_vars

\* the replies a render process can receive
Contents ==
    {"analysis", "analysis_tech_stack", "error_object", "not_json"}

\* The render side: the requests that reach the launch (one URL, a repository
\* that answers, documents that are accepted), the processes they start and
\* the clients polling GET /video-status
NextRender ==
    \/ ReceiveRequest(UrlHttps)
    \/ FetchAll(WorldWith(200, 200))
    \/ \E init \in {"ok", "HTTPException"} : IngestStart(init)
    \/ CreateAttempt(TRUE)
    \/ \E outcome \in {"started", "popen_failed"} : Launch(outcome)
    \/ \E p \in 1..Len(procs) : AgentStartup(p)
    \/ \E p \in 1..Len(procs), content \in Contents : HandleResponse(p, content)
    \/ \E p \in 1..Len(procs), generators \in {"exit0", "nonzero", "oserror"},
          upload_ok \in BOOLEAN : PipelineFinish(p, generators, upload_ok)
    \/ \E p \in 1..Len(procs) : DumpStatus(p)
    \/ \E p \in 1..Len(procs) : AgentExit(p)
    \/ VideoStatusRequest
    \/ VideoStatus

\* the render side is followed in the services that have their credentials
InitRender ==
    /\ Init
    /\ env.GITHUB_TOKEN
    /\ env.VECTARA_API_KEY

SpecRender == InitRender /\ [][NextRender]_vars

\* The render side with what each started process is sure to do: run.py
\* ends, an opened status file is written and closed, and a scheduled
\* os._exit runs.  Nothing is assumed about requests or replies arriving.
SpecRenderFair ==
    /\ SpecRender
    /\ \A p \in 1..MaxRequests :
          /\ WF_vars(\E generators \in {"exit0", "nonzero", "oserror"},
                        upload_ok \in BOOLEAN :
                            PipelineFinish(p, generators, upload_ok))
          /\ WF_vars(DumpStatus(p))
          /\ WF_vars(AgentExit(p))

\* One POST /fetch-repo for each of the repositories of IngestWorlds, in a
\* service that has its credentials
InitIngest ==
    /\ Init
    /\ env = EnvOf(TRUE, TRUE, GcsVideo, "unset")
    /\ status_file = [state |-> "absent"]

NextIngest ==
    \/ requests = 0 /\ ReceiveRequest(UrlHttps)
    \/ pc = "fetch" /\ \E w \in IngestWorlds : FetchAll(w)
    \/ \E init \in {"ok", "HTTPException"} : IngestStart(init)
    \/ \E ok \in BOOLEAN : CreateAttempt(ok)
    \/ Launch("started")

SpecIngest == InitIngest /\ [][NextIngest]_vars

\* POST /fetch-repo for each of ParseUrls, of a repository GitHub does not have
NextParse ==
    \/ \E url \in ParseUrls : ReceiveRequest(url)
    \/ FetchAll(WorldWith(404, 200))

SpecParse == Init /\ [][NextParse]_vars

NextSearch ==
    \E limit \in (0 - LimitsBelow)..MaxRequestedLimit, repo \in {Null, <<"r">>},
       owner \in {Null, <<"o">>}, corpus_ok \in BOOLEAN :
          PostSearch(limit, repo, owner, corpus_ok)

SpecSearch == Init /\ [][NextSearch]_vars

\* The analyzer agent and the request messages it is sent
NextAnalyzer ==
    \E msg \in Messages, a1 \in CorpusAnswers, g1 \in ModelAnswers,
       a2 \in CorpusAnswers, g2 \in ModelAnswers :
          HandleMessage(msg, a1, g1, a2, g2)

SpecAnalyzer == InitIngest /\ [][NextAnalyzer]_vars

\* The narration of one run.py process
NextTts ==
    \/ \E backend \in {"auto", "gemini", "cloud"}, project \in BOOLEAN :
          TtsStart(backend, project)
    \/ \E gemini \in {"ok", "error"},
          cloud \in {"ok", "error", "missing_dependency"} : Narrate(gemini, cloud)

SpecTts == InitIngest /\ [][NextTts]_vars

----------------------------------------------------------------------------
(* Claims *)

\* ingest_document has just returned for a document: create_log and sleep_log
\* are that document's, the last element of doc_results is what it returned
DocFinished == pc \in {"create", "launch"} /\ attempt = 0 /\ doc_results # <<>>

LastResult == doc_results[Len(doc_results)]

\* C1: for one document, a create call that succeeds is the last one made for
\* it and the document is reported ingested; a document is reported failed
\* only after three failed calls; never more than three calls are made.
C1_RetryThenReport ==
    /\ Len(create_log) <= 3
    /\ \A i \in 1..(Len(create_log) - 1) : ~create_log[i]
    /\ DocFinished =>
          /\ create_log # <<>>
          /\ LastResult <=> create_log[Len(create_log)]
          /\ ~LastResult => create_log = <<FALSE, FALSE, FALSE>>
          /\ successful = Cardinality({i \in 1..Len(doc_results) : doc_results[i]})
          /\ failed = Len(doc_results) - successful

\* a document that failed twice and succeeded on the third call is ingested
C1_Witness ==
    DocFinished /\ create_log = <<FALSE, FALSE, TRUE>> /\ LastResult /\ successful = 1

\* C2 as claimed: the waits before a document is marked failed are 1, 2, 4
C2_Original == (DocFinished /\ ~LastResult) => sleep_log = <<1, 2, 4>>

\* C2: the waits before a document is marked failed are exactly 1 s then 2 s;
\* no wait follows the third failed call, and a wait follows every earlier
\* failed call of a document.
C2_BackoffOneTwo ==
    /\ (DocFinished /\ ~LastResult) => sleep_log = <<1, 2>>
    /\ (pc = "create" \/ DocFinished) =>
          \E n \in 0..2 : /\ sleep_log = SubSeq(<<1, 2>>, 1, n)
                          /\ n = Cardinality({i \in 1..Len(create_log) : ~create_log[i] /\ i < 3})

C2_Witness == DocFinished /\ ~LastResult /\ sleep_log = <<1, 2>> /\ failed = 1

\* once the URL is parsed and the fetch has succeeded, the handler
\* returns only through the launch step, which it runs exactly once whatever
\* the ingestion did, and the response is 200 with the fetched files and the
\* ingestion summary.
C3_Step ==
    pc \in {"ingest", "create", "launch"} =>
       /\ launch_log = <<>>
       /\ response = NoResponse
       /\ pc' # "idle" => launch_log' = <<>> /\ all_files' = all_files
       /\ pc' = "idle" =>
             /\ Len(launch_log') = 1
             /\ response'.status_code = 200
             /\ response'.files = all_files
             /\ response'.total_files = Len(all_files)
             /\ response'.vectara_ingestion = vectara_stats
             /\ vectara_stats.status \in {"done", "skipped", "error"}

\* C3: every step of the handler after a successful fetch satisfies C3_Step:
\* the launch step runs exactly once, whatever the ingestion did, and the
\* request is answered 200 with the fetched files and the ingestion summary.
C3_LaunchOnceThenRespond == [][C3_Step]_vars

\* a request answered with the files although a document failed, its process
\* started
C3_Witness ==
    /\ pc = "idle"
    /\ response.status_code = 200
    /\ response.vectara_ingestion.status = "done"
    /\ response.vectara_ingestion.stats.failed = 1
    /\ response.total_files = 2
    /\ launch_log = <<"started">>
    /\ Len(procs) = 1

\* handle_response has returned in process p and scheduled the exit
Handled(p) == procs[p].pc = "exiting"

StatusIs(st) == status_file.state = "json" /\ status_file.data.status = st

\* C4 as claimed, for a render with no cloud-storage destination: once the
\* pipeline subprocess has exited 0 and handle_response is through, the
\* status file holds status completed.
C4_Original ==
    \A p \in 1..Len(procs) :
       (Handled(p) /\ procs[p].pipeline = "exit0_no_upload") => StatusIs("completed")

\* C5 as claimed: after a failure of the render process (a response that is
\* not JSON, a pipeline that could not run or exited non-zero, a failed
\* upload) has been handled, the status file holds status error with a message.
C5_Original ==
    \A p \in 1..Len(procs) :
       ( \/ procs[p].pc = "waiting" /\ procs[p].handler_errors = 1
         \/ Handled(p) /\ procs[p].pipeline \in {"nonzero", "exit0_upload_failed"} )
       => StatusIs("error") /\ "error" \in DOMAIN status_file.data

\* the status file holds status completed, a gcs_uri and nothing else
OnlyStatusAndUri ==
    /\ status_file.state = "json"
    /\ DOMAIN status_file.data = {"status", "gcs_uri"}
    /\ status_file.data.status = "completed"

Answered == video_response # NoResponse

\* C6 as claimed: for such a file the endpoint returns status and gcs_uri
\* unchanged and the public_url derived from the gcs_uri
C6_Original ==
    (OnlyStatusAndUri /\ Answered) =>
       /\ video_response.status_code = 200
       /\ video_response.status = "completed"
       /\ video_response.gcs_uri = status_file.data.gcs_uri
       /\ video_response.public_url =
             StorageUrl \o Drop(status_file.data.gcs_uri, Len(GsScheme))

\* C6: for a status file that holds only status completed and a gcs_uri, the
\* endpoint returns that status and gcs_uri unchanged and public_url null: it
\* returns the public_url stored in the file and derives none.
C6_EchoesStoredUrl ==
    (OnlyStatusAndUri /\ Answered) =>
       /\ video_response.status_code = 200
       /\ video_response.status = "completed"
       /\ video_response.gcs_uri = status_file.data.gcs_uri
       /\ video_response.public_url = Null

C6_Witness ==
    /\ OnlyStatusAndUri
    /\ Answered
    /\ video_response.gcs_uri = GcsVideo
    /\ Len(procs) = 1

\* C7: while no status file exists, every answer of GET /video-status is
\* status pending without gcs_uri and public_url.
C7_PendingWithoutFile ==
    (status_file.state = "absent" /\ Answered) =>
       /\ video_response.status_code = 200
       /\ video_response.status = "pending"
       /\ video_response.gcs_uri = Null
       /\ video_response.public_url = Null

\* pending is answered while a launched render runs its pipeline
C7_Witness ==
    /\ status_file.state = "absent"
    /\ Answered
    /\ video_response.status = "pending"
    /\ \E p \in 1..Len(procs) : procs[p].pc = "pipeline"

\* the directory listing that ended the fetch of this request with a status
\* other than 200, as a set (empty when there is none)
FailedListing ==
    { i \in 1..Len(github_log) :
         /\ github_log[i] \in DOMAIN world.list_status
         /\ world.list_status[github_log[i]] \notin {200, TransportError} }

\* C8 as claimed: the response to a request whose fetch met a listing with a
\* status other than 200 carries that status code
C8_Original ==
    (pc = "idle" /\ FailedListing # {}) =>
       \E i \in FailedListing : response.status_code = world.list_status[github_log[i]]

\* the repo_url values that match neither pattern
NotGithubUrls == {UrlNotValid, UrlNoRepo, UrlOtherHost}

\* a request whose repo_url
\* matches neither pattern is answered 400 in the step that receives it, with
\* no GitHub request, no corpus submission, no launch and no file written.
C9_Step ==
    (requests' = requests + 1 /\ repo_url' \in NotGithubUrls) =>
       /\ response'.status_code = 400
       /\ pc' = "idle"
       /\ github_log' = <<>>
       /\ create_log' = <<>>
       /\ launch_log' = <<>>
       /\ UNCHANGED <<procs, pid_file, agent_status_file, agent_log, status_file>>

\* C9: every step satisfies C9_Step: a request whose repo_url matches neither
\* the HTTPS nor the SSH pattern is rejected with 400 before any GitHub
\* request, corpus submission, process launch or write of the PID, log and
\* status files.
C9_InvalidUrlRejectedFirst == [][C9_Step]_vars

\* a second request, invalid, rejected after a first one launched a process
C9_Witness ==
    /\ pc = "idle"
    /\ requests = 2
    /\ repo_url = UrlOtherHost
    /\ response.status_code = 400
    /\ Len(procs) = 1

Clamp(n, lo, hi) == IF n < lo THEN lo ELSE IF n > hi THEN hi ELSE n

SearchAnswered == search.status_code # 0

\* C10 as claimed: every search request with credentials makes one corpus
\* query whose limit is the requested one clamped to 1..20
C10_Original ==
    (SearchAnswered /\ env.VECTARA_API_KEY) =>
       /\ Len(search.queries) = 1
       /\ search.queries[1].limit = Clamp(search.limit, 1, 20)

\* C10: the limit of a corpus query made by POST /search is the requested
\* limit and lies in 1..20; a request whose limit is outside 1..20 is
\* rejected (422) and no corpus query is made: nothing is raised to 1 or
\* lowered to 20.
C10_LimitValidatedNotClamped ==
    SearchAnswered =>
       /\ Len(search.queries) <= 1
       /\ \A i \in 1..Len(search.queries) :
             /\ search.queries[i].limit = search.limit
             /\ search.queries[i].limit \in 1..20
       /\ search.limit \notin 1..20 => search.status_code = 422 /\ search.queries = <<>>
       /\ (search.limit \in 1..20 /\ env.VECTARA_API_KEY) => Len(search.queries) = 1

C10_Witness == search.limit = 21 /\ search.status_code = 422 /\ search.queries = <<>>

----------------------------------------------------------------------------
(* README de-duplication and the ingest filter: SpecIngest *)

\* ingest_files has computed filtered_files and files_to_ingest
FilterRan == pc = "create" \/ (pc = "launch" /\ vectara_stats.status = "done")

Count(seq, r) == Cardinality({i \in 1..Len(seq) : seq[i] = r})

ReadmeLike(seq) == {i \in 1..Len(seq) : IsReadme(seq[i])}

RootReadmes(seq) == {i \in ReadmeLike(seq) : IsRootReadmeMd(seq[i])}

First(S) == CHOOSE i \in S : \A j \in S : i <= j

\* C11: when the input of filter_readme_files has a README-like file, the
\* output has exactly one, the root README.md if the input has one and the
\* first README-like file of the input otherwise, and every other file of the
\* input is in the output exactly as often as in the input; when the input has
\* no README-like file the output is the input.
C11_OneReadmeKept ==
    FilterRan =>
       IF ReadmeLike(all_files) = {}
       THEN filtered_files = all_files
       ELSE /\ Cardinality(ReadmeLike(filtered_files)) = 1
            /\ LET kept == filtered_files[First(ReadmeLike(filtered_files))]
               IN  IF RootReadmes(all_files) # {}
                   THEN kept = all_files[First(RootReadmes(all_files))]
                   ELSE kept = all_files[First(ReadmeLike(all_files))]
            /\ \A i \in 1..Len(all_files) :
                  ~IsReadme(all_files[i]) =>
                     Count(filtered_files, all_files[i]) = Count(all_files, all_files[i])
            /\ Len(filtered_files) = Len(all_files) - Cardinality(ReadmeLike(all_files)) + 1

\* a README.md of a sub-directory comes before the root README.md and another
\* file, and the filter has run
C11_Witness ==
    /\ FilterRan
    /\ Cardinality(ReadmeLike(all_files)) = 2
    /\ RootReadmes(all_files) # {}
    /\ First(ReadmeLike(all_files)) \notin RootReadmes(all_files)
    /\ Len(filtered_files) = 2

----------------------------------------------------------------------------
(* The fetch *)

\* the file entries of the listings of w whose extension, lower-cased, is in
\* the blocklist
BinaryEntries(w) ==
    { e \in UNION { {w.listing[p][i] : i \in 1..Len(w.listing[p])} : p \in DOMAIN w.listing } :
        e.type = "file" /\ LowerTok(SplitExt(e.name)) \in BINARY_EXTENSIONS }

InSeq(seq, x) == \E i \in 1..Len(seq) : seq[i] = x

PathsOf(files) == {files[i].path : i \in 1..Len(files)}

\* C12: no content request is issued for a file entry with a blocklisted
\* extension, whatever its case, and no record for it is in the list the fetch
\* returns nor in the files of the response.
C12_BinaryNeverFetched ==
    \A e \in BinaryEntries(world) :
        /\ ~InSeq(github_log, e.path)
        /\ e.path \notin PathsOf(all_files)
        /\ response.status_code = 200 => e.path \notin PathsOf(response.files)

\* the fetch of a repository listing LOGO.PNG next to a text file has returned
C12_Witness ==
    /\ pc = "ingest"
    /\ \E e \in BinaryEntries(world) : e.name = NameLogo
    /\ Len(all_files) >= 1
    /\ Len(github_log) >= 2

----------------------------------------------------------------------------
(* parse_github_url: SpecParse *)

\* a request has been received and its URL parsed
Parsed == requests > 0

\* what the parser made of the last repo_url: the pair, or <<>> with 400
ParsedAs(owner, repo) == owner_repo = <<owner, repo>> /\ response.status_code # 400

Rejected400 == owner_repo = <<>> /\ response.status_code = 400

\* C13 as stated: the listed forms give (owner, repo) without the .git suffix,
\* and every string that has none of the listed forms is answered 400.
C13_Original ==
    Parsed =>
       /\ \A c \in GithubCases :
             (c.listed /\ repo_url = c.url) => ParsedAs(c.owner, c.repo)
       /\ (\A c \in GithubCases : c.listed => repo_url # c.url) => Rejected400

\* C13, amended: the listed forms give (owner, repo) without the .git suffix;
\* so do the http scheme, a www. prefix, the SSH form without .git, the bare
\* form with .git and a URL with a further path after the repo; 400 answers
\* the strings that do not begin with one of these prefixes followed by a
\* non-empty owner, a slash and a non-empty repo.
C13_ParsesAllGithubForms ==
    Parsed =>
       /\ \A c \in GithubCases : repo_url = c.url => ParsedAs(c.owner, c.repo)
       /\ repo_url \in NoRepoUrls => Rejected400

\* the SSH form of a repo whose name ends in letters of ".git" has been parsed
C13_Witness ==
    /\ Parsed
    /\ repo_url = SshPrefix \o <<"o","c","t">> \o SLASH \o <<"k","i","t">> \o DOT_GIT
    /\ owner_repo = << <<"o","c","t">>, <<"k","i","t">> >>

----------------------------------------------------------------------------
(* The ingestion run: SpecIngest *)

PathSeq(files) == [i \in 1..Len(files) |-> files[i].path]

Failures(results) == Cardinality({i \in 1..Len(results) : ~results[i]})

\* C14: the files handed to documents.create are, in list order, the files
\* that passed README de-duplication and the ingest filter, whatever the
\* earlier documents did: while the run goes on they are the files up to the
\* one in hand, at its end all of them; every failed document is counted in
\* failed, and the request is answered 200 with the summary.
C14_EveryFileSubmitted ==
    /\ FilterRan =>
          /\ files_to_ingest = SelectSeq(filtered_files, should_ingest_file)
          /\ Len(submitted) <= Len(files_to_ingest)
          /\ submitted = SubSeq(PathSeq(files_to_ingest), 1, Len(submitted))
    /\ pc = "create" =>
          /\ Len(doc_results) = doc_index - 1
          /\ Len(submitted) = IF attempt = 0 THEN doc_index - 1 ELSE doc_index
          /\ failed = Failures(doc_results)
    /\ (pc = "launch" /\ vectara_stats.status = "done") =>
          /\ submitted = PathSeq(files_to_ingest)
          /\ Len(doc_results) = Len(files_to_ingest)
          /\ vectara_stats.stats.failed = Failures(doc_results)
    /\ (pc = "idle" /\ requests > 0) =>
          /\ response.status_code = 200
          /\ response.vectara_ingestion.status \in {"done", "skipped"}

\* a run of three documents is over, the first two of which failed
C14_Witness ==
    /\ pc = "launch"
    /\ vectara_stats.status = "done"
    /\ doc_results = <<FALSE, FALSE, TRUE>>
    /\ Len(submitted) = 3

\* the strings the fetcher puts in place of a content: the binary placeholder
\* and "Failed to fetch file: <status>"
IsSentinel(content) ==
    \/ content = BinarySentinel
    \/ \E code \in {403, 404, 500, 502} : content = FailedContent(code)

\* conditions (i) to (iv) on a file
Acceptable(f) ==
    LET content == Get(f, "content", <<>>)
        name == Lower(Get(f, "name", <<>>))
    IN  /\ content # <<>>
        /\ ~IsSentinel(content)
        /\ StripLen(content) >= 10
        /\ \/ LowerTok(SplitExt(name)) \in TEXT_CODE_EXTENSIONS
           \/ SplitExt(name) = "" /\ name \in KnownExtensionless

\* C15 as stated: of the files left by README de-duplication, the ones to
\* ingest are exactly the ones with a non-empty content that is no sentinel
\* string and has 10 characters or more after trimming, and with a name that
\* has an allowlisted extension or is a known extensionless name; no other
\* file is submitted.
C15_Original ==
    FilterRan =>
       /\ \A i \in 1..Len(filtered_files) :
              InSeq(files_to_ingest, filtered_files[i]) <=> Acceptable(filtered_files[i])
       /\ \A i \in 1..Len(submitted) :
              \E j \in 1..Len(filtered_files) :
                 filtered_files[j].path = submitted[i] /\ Acceptable(filtered_files[j])

----------------------------------------------------------------------------
(* The metadata filters of a search: SpecSearch *)

----------------------------------------------------------------------------
(* Requests to the GitHub API during one fetch: Spec *)

\* the paths whose request was not answered 200
FailedPaths(w) ==
    {p \in DOMAIN w.list_status : w.list_status[p] # 200}
    \cup {p \in DOMAIN w.file : w.file[p].status # 200}

\* C17: the requests of one fetch name each path at most once; in particular
\* a path whose request failed is requested once and not again.
C17_EachPathRequestedOnce ==
    /\ \A i, j \in 1..Len(github_log) : github_log[i] = github_log[j] => i = j
    /\ \A p \in FailedPaths(world) : Count(github_log, p) <= 1

\* the listing of src failed after the root listing and README.md were
\* requested, and the request is over
C17_Witness ==
    /\ pc = "idle"
    /\ world.list_status # <<>>
    /\ <<NameSrc>> \in FailedPaths(world)
    /\ github_log = << <<>>, <<NameReadme>>, <<NameSrc>> >>

\* the requested paths that GitHub answered with a status other than 200
RefusedListings ==
    {p \in DOMAIN world.list_status :
        InSeq(github_log, p) /\ world.list_status[p] \notin {200, TransportError}}

RefusedFiles ==
    {p \in DOMAIN world.file :
        InSeq(github_log, p) /\ world.file[p].status \notin {200, TransportError}}

ErrorRecord(p) ==
    [path |-> p, type |-> "error", content |-> FailedContent(world.file[p].status)]

\* C18 as stated: after a listing or a content request was answered with
\* another status than 200, the fetch has ended with an error: the handler
\* does not go on to the ingestion and the response is no 200.
C18_Original ==
    (RefusedListings # {} \/ RefusedFiles # {}) =>
        /\ pc = "idle"
        /\ response.status_code >= 400

\* C18, amended: a listing answered with another status than 200 ends the
\* fetch with an error and the request with an error response; a content
\* request answered with another status than 200 does not: the fetch goes on
\* and returns, for that path, a record of type error holding "Failed to
\* fetch file: <status>", and the request is answered 200 with that record.
C18_ListingFailsFileRecorded ==
    /\ RefusedListings # {} =>
          /\ pc = "idle"
          /\ all_files = <<>>
          /\ response.status_code = 500
    /\ (RefusedListings = {} /\ RefusedFiles # {}) =>
          \A p \in RefusedFiles :
             IF pc = "idle"
             THEN response.status_code = 200 /\ InSeq(response.files, ErrorRecord(p))
             ELSE pc \in {"ingest", "create", "launch"} /\ InSeq(all_files, ErrorRecord(p))

\* the content of src/main.py was refused with 404 and the request is answered
C18_Witness ==
    /\ pc = "idle"
    /\ RefusedFiles = { <<NameSrc, NameMain>> }
    /\ response.status_code = 200
    /\ Len(response.files) = 2

----------------------------------------------------------------------------
(* The status GET /video-status returns: SpecRender *)

\* C19: whenever GET /video-status has answered with a status, the status is
\* pending, completed or error, and a status file that can be read holds
\* completed or error; the only other answer is a 500 without a status, for a
\* file that is being written.
C19_StatusValues ==
    /\ video_response.status_code \in {0, 200, 500}
    /\ video_response.status_code = 200 =>
          video_response.status \in {"pending", "completed", "error"}
    /\ status_file.state = "json" => status_file.data.status \in {"completed", "error"}

\* a render process has recorded a failed pipeline and a poll has returned it
C19_Witness ==
    /\ video_response.status_code = 200
    /\ video_response.status = "error"
    /\ \E i \in 1..Len(procs) : procs[i].pc = "exited"

----------------------------------------------------------------------------
(* The counts of an ingestion run: SpecIngest *)

CountsAddUp(stats, files) ==
    /\ stats.total_files = Len(files)
    /\ stats.total_files = stats.ingested + stats.skipped + stats.failed
    /\ stats.ingested >= 0 /\ stats.skipped >= 0 /\ stats.failed >= 0

\* C20: the counts ingest_files returns, and the ones the response carries,
\* satisfy total_files = ingested + skipped + failed, with total_files the
\* number of input files and no count negative.
C20_CountsAddUp ==
    /\ vectara_stats.status = "done" => CountsAddUp(vectara_stats.stats, all_files)
    /\ (response.status_code = 200 /\ response.vectara_ingestion.status = "done") =>
          CountsAddUp(response.vectara_ingestion.stats, response.files)

\* README de-duplication dropped a file, and of the two files ingested one
\* failed
C20_Witness ==
    /\ vectara_stats.status = "done"
    /\ Len(filtered_files) < Len(all_files)
    /\ vectara_stats.stats.ingested = 1
    /\ vectara_stats.stats.failed = 1
    /\ vectara_stats.stats.skipped = 1

----------------------------------------------------------------------------
(* C21 *)

\* the pipeline of process p is running on an analysis.json with exactly the
\* keys analyze_repository returns, with a well-formed upload destination
RunsOnAnalysis(p) ==
    /\ procs[p].pc = "pipeline"
    /\ procs[p].analysis = AnalyzerKeys
    /\ procs[p].GCS_URI = GcsVideo

\* a step in which such a pipeline ends with every generator and the upload
\* succeeding leaves the process about to write status completed
C21_Step ==
    \A p \in 1..Len(procs) :
        RunsOnAnalysis(p) /\ PipelineFinish(p, "exit0", TRUE) =>
            /\ procs'[p].pipeline = "exit0_uploaded"
            /\ procs'[p].payload.status = "completed"

\* C21 as stated: when the analysis JSON has exactly the keys title,
\* description, user_journey and repository, and image generation, speech
\* synthesis, composition and upload all succeed, run.py finishes without
\* error and the render writes status completed.
C21_Original ==
    [][C21_Step]_vars

----------------------------------------------------------------------------
(* C22 *)

\* the status file holds a completed result that render process q wrote
\* (updated_at stands for the writer)
CompletedBy(q) ==
    /\ status_file.state = "json"
    /\ status_file.data.status = "completed"
    /\ "updated_at" \in DOMAIN status_file.data
    /\ status_file.data.updated_at = <<q>>

\* GET /video-status answers completed after at least one render was launched
C22_Step ==
    ( /\ VideoStatus
      /\ procs # <<>>
      /\ video_response'.status_code = 200
      /\ video_response'.status = "completed" )
    => CompletedBy(Len(procs))

\* C22 as stated: a completed status returned by GET /video-status always
\* belongs to the most recently launched render; after a new launch the
\* endpoint does not return the completed result of a previous render.
C22_Original ==
    [][C22_Step]_vars

----------------------------------------------------------------------------
(* C23 *)

\* render process p has received a reply and not exited yet: it is past
\* json.loads, or its handler has ended in the outer except
Received(p) ==
    /\ p <= Len(procs)
    /\ \/ procs[p].pc \in {"pipeline", "dumping", "exiting"}
       \/ procs[p].handler_errors = 1

Exited(p) ==
    /\ p <= Len(procs)
    /\ procs[p].pc = "exited"

\* C23 as stated: after the router agent receives any response (an analysis,
\* an error object, or content that is not JSON), whatever the pipeline
\* outcome, the agent process eventually exits.
C23_Original ==
    \A p \in 1..MaxRequests : Received(p) ~> Exited(p)

----------------------------------------------------------------------------
(* C24 *)

\* every listing and every content request of w is answered 200
AllSucceed(w) ==
    /\ \A p \in DOMAIN w.list_status : w.list_status[p] = 200
    /\ \A p \in DOMAIN w.file : w.file[p].status = 200

RECURSIVE DepthFirst(_, _)
\* the paths of the non-binary file entries below the listing items, a
\* directory's at the place of the directory
DepthFirst(w, items) ==
    IF items = <<>> THEN <<>>
    ELSE LET e == Head(items)
             here == IF e.type = "file"
                     THEN IF should_ignore_file(e.name) THEN <<>> ELSE <<e.path>>
                     ELSE IF e.type = "dir" THEN DepthFirst(w, w.listing[e.path])
                     ELSE <<>>
         IN  here \o DepthFirst(w, Tail(items))

\* C24: for a repository tree in which every request succeeds,
\* fetch_all_files_recursive returns exactly one record per non-binary entry
\* of type file and none for directories or other entry types, in
\* depth-first order of the listings.
C24_DepthFirstRecords ==
    pc = "ingest" /\ AllSucceed(world) =>
        /\ PathSeq(all_files) = DepthFirst(world, world.listing[<<>>])
        /\ \A i \in 1..Len(all_files) : all_files[i].type = "file"

\* a fetch of a tree whose root lists a file, then a directory, then a
\* submodule
C24_Witness ==
    /\ pc = "ingest"
    /\ AllSucceed(world)
    /\ Len(world.listing[<<>>]) = 3
    /\ world.listing[<<>>][2].type = "dir"
    /\ world.listing[<<>>][3].type = "submodule"
    /\ Len(all_files) = 2
    /\ Len(all_files[1].path) = 1
    /\ Len(all_files[2].path) = 2

----------------------------------------------------------------------------
(* C25 *)

\* render process p is writing status completed
WritesCompleted(p) ==
    /\ procs[p].pc = "dumping"
    /\ procs[p].payload.status = "completed"

\* C25 as stated: whenever the render process writes status completed, the
\* written gcs_uri is the gs:// URI the upload step reported, public_url is
\* https://storage.googleapis.com/<bucket>/<object> for that URI, and the
\* gcs_uri is not empty.
C25_Original ==
    \A p \in 1..Len(procs) :
        WritesCompleted(p) =>
            /\ procs[p].payload.gcs_uri = procs[p].GCS_URI
            /\ procs[p].payload.public_url =
                   StorageUrl \o Drop(procs[p].GCS_URI, Len(GsScheme))
            /\ procs[p].payload.gcs_uri # <<>>

----------------------------------------------------------------------------
(* C26 *)

\* the whole payloads written to the status file so far or being written, and
\* the one a previous run may have left
WholeWrites ==
    { LeftoverStatus.data }
    \cup { ErrorPayload(p) : p \in 1..Len(procs) }
    \cup { CompletedPayload(PipelineStdout(procs[p].GCS_URI, TRUE), p) :
             p \in {q \in 1..Len(procs) : procs[q].GCS_URI # <<>>} }

\* the answer that echoes the payload d and nothing else
EchoOf(d) ==
    [status_code |-> 200, status |-> d.status,
     gcs_uri |-> IF "gcs_uri" \in DOMAIN d THEN d.gcs_uri ELSE Null,
     public_url |-> IF "public_url" \in DOMAIN d THEN d.public_url ELSE Null,
     updated_at |-> IF "updated_at" \in DOMAIN d THEN d.updated_at ELSE Null]

\* GET /video-status is answered while some status file exists
C26_Step ==
    VideoStatus /\ status_file.state # "absent" =>
        \/ video_response' = [status_code |-> 500]
        \/ \E d \in WholeWrites : video_response' = EchoOf(d)

\* C26: a GET /video-status that reads the status file while a render process
\* overwrites it answers with the complete old content, the complete new
\* content or HTTP 500, never with a record mixing two writes, and the handler
\* returns an answer.
C26_WholeOrError ==
    [][C26_Step]_vars

\* the endpoint answered 500 for the file a second render had truncated and
\* not yet written
C26_Witness ==
    /\ Len(procs) = 2
    /\ procs[1].pc = "exited"
    /\ procs[2].pc = "dumping"
    /\ status_file.state = "empty"
    /\ video_response = [status_code |-> 500]

----------------------------------------------------------------------------
(* C27 *)

\* the paths of the non-binary files of the repository
TreePaths(w) ==
    LET all == DepthFirst(w, w.listing[<<>>])
    IN  {all[i] : i \in 1..Len(all)}

\* C27 as stated: a successful return of fetch_all_files_recursive contains
\* every non-binary file of the tree; a directory listing that fails for any
\* reason makes the fetch raise instead of returning an incomplete list.
C27_Original ==
    pc = "ingest" => TreePaths(world) \subseteq PathsOf(all_files)

----------------------------------------------------------------------------
(* C28 *)

\* the message carries a repository_url that is not blank
HasUrl(msg) ==
    /\ msg.json = "object"
    /\ "repository_url" \in DOMAIN msg.payload
    /\ Strip(msg.payload.repository_url, " ") # <<>>

\* C28: for every request message the analyzer agent handles it sends exactly
\* one reply: the analysis result when the analysis returns, an error object
\* when repository_url is missing, when the message cannot be read or when
\* the analysis raises.
C28_OneReplyPerRequest ==
    \A i \in 1..Len(analyzer) :
        LET h == analyzer[i]
        IN  /\ Len(h.replies) = 1
            /\ IF HasUrl(h.msg) /\ h.analysis = "returned"
               THEN h.replies[1].kind = "analysis"
               ELSE h.replies[1].kind = "error"
            /\ ~ HasUrl(h.msg) => h.analysis = "not_run"

\* requests handled: one without repository_url, one analysed
C28_Witness ==
    /\ Len(analyzer) = MaxMessages
    /\ \E i \in 1..Len(analyzer) :
          /\ analyzer[i].msg.json = "object"
          /\ ~ HasUrl(analyzer[i].msg)
          /\ analyzer[i].replies = <<ErrorReply("Missing repository_url")>>
    /\ \E i \in 1..Len(analyzer) :
          /\ HasUrl(analyzer[i].msg)
          /\ analyzer[i].analysis = "returned"
          /\ analyzer[i].replies[1].kind = "analysis"

----------------------------------------------------------------------------
(* C29 *)

\* the model calls made between corpus query number n and the next query
CallsAfterQuery(calls, n) ==
    LET qs == {i \in 1..Len(calls) : calls[i].op = "query"}
        at == CHOOSE i \in qs : Cardinality({j \in qs : j <= i}) = n
        next == {j \in qs : j > at}
    IN  {i \in 1..Len(calls) :
            i > at /\ calls[i].op = "generate_content"
                  /\ \A j \in next : i < j}

\* what analyze_repository owes for question n, whose answer is in field:
\* nothing but an empty field after a failed corpus query, a failure message
\* after a failed model call
FieldKept(h, n, field) ==
    LET q == SelectSeq(h.calls, LAMBDA c : c.op = "query")
        after == CallsAfterQuery(h.calls, n)
    IN  /\ Len(q) >= n
        /\ q[n].outcome = "request_error" =>
               after = {} /\ h.replies[1].result[field] = ""
        /\ \A i \in after :
               h.calls[i].outcome = "raises" =>
                   h.replies[1].result[field] = GeminiFailed

\* C29 as stated: analyze_repository always returns a record with the four
\* keys title, description, user_journey and repository, whatever the corpus
\* query and the generative model do; a failed corpus query leaves its field
\* empty and makes no model call, a failed model call puts a failure message
\* in the field instead of raising.
C29_Original ==
    \A i \in 1..Len(analyzer) :
        LET h == analyzer[i]
        IN  HasUrl(h.msg) =>
                /\ h.analysis = "returned"
                /\ DOMAIN h.replies[1].result = AnalyzerKeys
                /\ FieldKept(h, 1, "description")
                /\ FieldKept(h, 2, "user_journey")

\* the same for the analyses that return
C29_WhenReturned ==
    \A i \in 1..Len(analyzer) :
        LET h == analyzer[i]
        IN  HasUrl(h.msg) /\ h.analysis = "returned" =>
                /\ DOMAIN h.replies[1].result = AnalyzerKeys
                /\ FieldKept(h, 1, "description")
                /\ FieldKept(h, 2, "user_journey")

----------------------------------------------------------------------------
(* C30 *)

\* C30 as stated: with backend cloud the Gemini backend is never called;
\* with backend gemini a Gemini failure ends the process with exit status 1
\* without calling cloud TTS; with backend auto any Gemini failure, a missing
\* Vertex project configuration included, falls back to cloud TTS and, cloud
\* TTS answering, the output file is written.
C30_Original ==
    \A i \in 1..Len(tts.log) :
        LET c == tts.log[i]
        IN  /\ tts.backend = "cloud" => ~ InSeq(c.calls, "_tts_gemini")
            /\ tts.backend = "gemini" /\ c.gemini \in {"error", "SystemExit"} =>
                   c.outcome = "exit1" /\ ~ InSeq(c.calls, "_tts_cloud")
            /\ tts.backend = "auto" /\ c.gemini \in {"error", "SystemExit"} =>
                   /\ InSeq(c.calls, "_tts_cloud")
                   /\ c.cloud = "ok" => c.outcome = "written"

====
